---- MODULE Spec2Model ----
(***************************************************************************)
(* A model of the DICOM Part 10 reader of libdicom (src/src/dicom-file.c). *)
(*                                                                         *)
(* A file is a sequence of bytes (0..255); a stream position is a 0-based  *)
(* byte offset.  32-bit quantities (tags, lengths, Number of Frames) keep  *)
(* their full width as a pair <<high 16 bits, low 16 bits>>; stream        *)
(* positions and byte counters (size_t) are plain integers, which stay     *)
(* far below 2^31 because the files of the model are short.                *)
(*                                                                         *)
(* The reader never looks at the count fread returns, so after a short     *)
(* read the destination keeps whatever bytes it held before.  Those bytes  *)
(* are indeterminate; every operation draws them from a record of stale    *)
(* bytes ("uninit", one of Uninits) chosen anew for every call.            *)
(***************************************************************************)
EXTENDS Integers, Sequences, FiniteSets, TLC

VARIABLES fileId,               \* which file of Files the handle is open on
          fpos,                 \* position of file->fp
          offset,               \* file->offset (header_end_offset)
          transfer_syntax_uid,  \* file->transfer_syntax_uid, NULLSTR if NULL
          pixel_data_offset,    \* file->pixel_data_offset
          metadata,             \* datasets read_metadata has returned so far
          alive,                \* FALSE once the process has aborted
          hist,                 \* one record per completed public call
          vdIn, vdOut,          \* input and result of a lone read_element call
          olds,                 \* the pointer strtok keeps between its calls
          threads               \* the threads inside parse_character_string

vars == <<fileId, fpos, offset, transfer_syntax_uid, pixel_data_offset,
          metadata, alive, hist, vdIn, vdOut, olds, threads>>

-----------------------------------------------------------------------------
(* Bytes and fixed-width integers *)

Min(a, b) == IF a < b THEN a ELSE b
Max(a, b) == IF a > b THEN a ELSE b

NULLSTR == <<-1>>

Rep(b, k) == [i \in 1..k |-> b]

LE16(v) == <<v % 256, v \div 256>>
\* a 32-bit value <<hi, lo>> as its four little-endian bytes
LE32(u) == LE16(u[2]) \o LE16(u[1])
\* a tag is written group first, element second, each little-endian
TagBytes(t) == LE16(t[1]) \o LE16(t[2])

U16(b) == b[1] + 256 * b[2]
U32(b) == <<U16(SubSeq(b, 3, 4)), U16(SubSeq(b, 1, 2))>>

W32(n) == <<n \div 65536, n % 65536>>
UNDEFINED_LENGTH == <<65535, 65535>>
\* the integer value of a 32-bit quantity below 2^31
Int32(u) == u[1] * 65536 + u[2]
IsBig(u) == u[1] >= 32768
\* (size_t) n < (uint32_t) u, for n below 2^31
LtU32(n, u) == IF IsBig(u) THEN TRUE ELSE n < Int32(u)

-----------------------------------------------------------------------------
(* enum SpecialTag *)

TAG_ITEM == <<\hFFFE, \hE000>>
TAG_ITEM_DELIM == <<\hFFFE, \hE00D>>
TAG_SQ_DELIM == <<\hFFFE, \hE0DD>>
TAG_TRAILING_PADDING == <<\hFFFC, \hFFFC>>
TAG_EXTENDED_OFFSET_TABLE == <<\h7FE0, \h0001>>
TAG_PIXEL_DATA == <<\h7FE0, \h0010>>
TAG_FLOAT_PIXEL_DATA == <<\h7FE0, \h0008>>
TAG_DOUBLE_PIXEL_DATA == <<\h7FE0, \h0009>>
TAG_GROUP_LENGTH == <<\h0002, \h0000>>
TAG_META_VERSION == <<\h0002, \h0001>>
TAG_MEDIA_SOP_CLASS == <<\h0002, \h0002>>
TAG_TRANSFER_SYNTAX == <<\h0002, \h0010>>
TAG_IMPLEMENTATION_VERSION == <<\h0002, \h0013>>
TAG_NUMBER_OF_FRAMES == <<\h0028, \h0008>>
TAG_SPECIFIC_CHARSET == <<\h0008, \h0005>>
TAG_CODE_VALUE == <<\h0008, \h0100>>
TAG_DERIVATION_DESCR == <<\h0008, \h2111>>
TAG_PATIENT_NAME == <<\h0010, \h0010>>
TAG_SAMPLES_PER_PIXEL == <<\h0028, \h0002>>
TAG_PHOTOMETRIC == <<\h0028, \h0004>>
TAG_PLANAR_CONFIG == <<\h0028, \h0006>>
TAG_ROWS == <<\h0028, \h0010>>
TAG_COLUMNS == <<\h0028, \h0011>>
TAG_BITS_ALLOCATED == <<\h0028, \h0100>>
TAG_BITS_STORED == <<\h0028, \h0101>>
TAG_PIXEL_REPR == <<\h0028, \h0103>>
TAG_SOME_SEQUENCE == <<\h0040, \h0555>>

PixelDataTags == {TAG_PIXEL_DATA, TAG_FLOAT_PIXEL_DATA, TAG_DOUBLE_PIXEL_DATA}

-----------------------------------------------------------------------------
(* Value Representations *)

\* the two bytes of each Value Representation
vr_bytes == [
    AE |-> <<65, 69>>, AS |-> <<65, 83>>, AT |-> <<65, 84>>, CS |-> <<67, 83>>,
    DA |-> <<68, 65>>, DS |-> <<68, 83>>, DT |-> <<68, 84>>, FD |-> <<70, 68>>,
    FL |-> <<70, 76>>, IS |-> <<73, 83>>, LO |-> <<76, 79>>, LT |-> <<76, 84>>,
    OB |-> <<79, 66>>, OD |-> <<79, 68>>, OF |-> <<79, 70>>, OL |-> <<79, 76>>,
    OV |-> <<79, 86>>, OW |-> <<79, 87>>, PN |-> <<80, 78>>, SH |-> <<83, 72>>,
    SL |-> <<83, 76>>, SQ |-> <<83, 81>>, SS |-> <<83, 83>>, ST |-> <<83, 84>>,
    SV |-> <<83, 86>>, TM |-> <<84, 77>>, UC |-> <<85, 67>>, UI |-> <<85, 73>>,
    UL |-> <<85, 76>>, UN |-> <<85, 78>>, UR |-> <<85, 82>>, US |-> <<85, 83>>,
    UT |-> <<85, 84>>, UV |-> <<85, 86>>]

\* char vr[3] read from the stream, as a string: the Value Representation
\* its two bytes spell, "" when they spell none
vr_string(bytes) ==
    IF \E s \in DOMAIN vr_bytes : vr_bytes[s] = bytes
    THEN CHOOSE s \in DOMAIN vr_bytes : vr_bytes[s] = bytes
    ELSE ""

\* the VRs read_element_header gives a 2-byte length in explicit mode
\* a short-length class that holds UT as well
ShortLengthVRs_with_UT ==
    {"AE", "AS", "AT", "CS", "DA", "DS", "DT", "FL", "FD", "IS", "LO", "LT",
     "PN", "SH", "SL", "SS", "ST", "TM", "UI", "UL", "US", "UT"}

ShortLengthVRs == {"AE", "AS", "AT", "CS", "DA", "DS", "DT", "FL",
                   "FD", "IS", "LO", "LT", "PN", "SH", "SL", "SS",
                   "ST", "TM", "UI", "UL", "US"}

\* the VRs read_element decodes as character strings
CharacterStringVRs == {"AE", "AS", "AT", "CS", "DA", "DS", "DT",
                       "IS", "LO", "LT", "PN", "SH", "ST", "TM",
                       "UI", "UR", "UT"}

\* the character-string VRs read_element rejects when vm > 1
SingleValuedVRs == {"ST", "LT", "UR", "UT"}

OpaqueVRs == {"OB", "OD", "OF", "OL", "OV", "OW", "UC", "UN"}

\* sizeof of one value of a fixed-width numeric VR
NumericSize(vr) ==
    CASE vr = "FD" -> 8 [] vr = "FL" -> 4 [] vr = "SS" -> 2
      [] vr = "SL" -> 4 [] vr = "SV" -> 8 [] vr = "UL" -> 4
      [] vr = "US" -> 2 [] vr = "UV" -> 8 [] OTHER -> 0

NumericVRs == {"FD", "FL", "SS", "SL", "SV", "UL", "US", "UV"}

AllVRs == CharacterStringVRs \cup NumericVRs \cup OpaqueVRs \cup {"SQ"}

-----------------------------------------------------------------------------
(* Collaborators declared in dicom.h *)

\* dcm_dict_lookup_vr: the canonical VR of a tag, "UN" when unknown
dcm_dict_lookup_vr(tag) ==
    CASE tag = TAG_GROUP_LENGTH -> "UL"
      [] tag = TAG_META_VERSION -> "OB"
      [] tag = TAG_MEDIA_SOP_CLASS -> "UI"
      [] tag = TAG_TRANSFER_SYNTAX -> "UI"
      [] tag = TAG_IMPLEMENTATION_VERSION -> "SH"
      [] tag = TAG_SPECIFIC_CHARSET -> "CS"
      [] tag = TAG_CODE_VALUE -> "SH"
      [] tag = TAG_DERIVATION_DESCR -> "ST"
      [] tag = TAG_PATIENT_NAME -> "PN"
      [] tag = TAG_SAMPLES_PER_PIXEL -> "US"
      [] tag = TAG_PHOTOMETRIC -> "CS"
      [] tag = TAG_PLANAR_CONFIG -> "US"
      [] tag = TAG_NUMBER_OF_FRAMES -> "IS"
      [] tag = TAG_ROWS -> "US"
      [] tag = TAG_COLUMNS -> "US"
      [] tag = TAG_BITS_ALLOCATED -> "US"
      [] tag = TAG_BITS_STORED -> "US"
      [] tag = TAG_PIXEL_REPR -> "US"
      [] tag = TAG_SOME_SEQUENCE -> "SQ"
      [] tag = TAG_EXTENDED_OFFSET_TABLE -> "OV"
      [] tag = TAG_PIXEL_DATA -> "OW"
      [] tag = TAG_FLOAT_PIXEL_DATA -> "OF"
      [] tag = TAG_DOUBLE_PIXEL_DATA -> "OD"
      [] tag = TAG_TRAILING_PADDING -> "OB"
      [] OTHER -> "UN"

\* dcm_is_valid_tag: a tag of the dictionary, or a private (odd group) tag
dcm_is_valid_tag(tag) == dcm_dict_lookup_vr(tag) # "UN" \/ tag[1] % 2 = 1

\* dcm_is_valid_vr
dcm_is_valid_vr(vr) == vr \in AllVRs

\* the bytes of "1.2.840.10008.1.2", Implicit VR Little Endian
UID_IMPLICIT == <<49, 46, 50, 46, 56, 52, 48, 46, 49, 48, 48, 48, 56, 46, 49, 46, 50>>
\* "1.2.840.10008.1.2.1", Explicit VR Little Endian
UID_EXPLICIT == UID_IMPLICIT \o <<46, 49>>
\* "1.2.840.10008.1.2.4.50", JPEG Baseline, an encapsulated transfer syntax
UID_JPEG == UID_IMPLICIT \o <<46, 52, 46, 53, 48>>

\* dcm_is_encapsulated_transfer_syntax, for a non-NULL UID
dcm_is_encapsulated_transfer_syntax(uid) == uid \notin {UID_IMPLICIT, UID_EXPLICIT}

\* dcm_dataset_insert refuses a tag the Data Set already holds
HasTag(ds, tag) == \E i \in 1..Len(ds) : ds[i].tag = tag

\* dcm_dataset_get
dcm_dataset_get(ds, tag) == ds[CHOOSE i \in 1..Len(ds) : ds[i].tag = tag]

-----------------------------------------------------------------------------
(* Indeterminate bytes: what the destinations of short reads and the       *)
(* uninitialised locals hold.                                              *)

DICM == <<68, 73, 67, 77>>

\* every destination holds zero bytes
UninitZero ==
    [prefix |-> <<0, 0, 0, 0>>, tag |-> <<0, 0, 0, 0>>, vr |-> <<0, 0>>,
     short_length |-> <<0, 0>>, reserved |-> <<0, 0>>,
     length |-> <<0, 0, 0, 0>>, heap |-> 0, size_t |-> 0, big_malloc |-> TRUE,
     double_free_aborts |-> TRUE]

\* the stack still holds a header (0008,0005) UL of length 4 and the prefix
\* of a file read before
UninitStaleUL ==
    [prefix |-> DICM, tag |-> TagBytes(TAG_SPECIFIC_CHARSET),
     vr |-> vr_bytes["UL"],
     short_length |-> <<4, 0>>, reserved |-> <<0, 0>>,
     length |-> <<4, 0, 0, 0>>, heap |-> 0, size_t |-> 7, big_malloc |-> FALSE,
     double_free_aborts |-> FALSE]

\* the stack still holds a header (0002,0010) UI of length 0; the heap holds 'A'
UninitStaleUI ==
    [prefix |-> DICM, tag |-> TagBytes(TAG_TRANSFER_SYNTAX),
     vr |-> vr_bytes["UI"],
     short_length |-> <<0, 0>>, reserved |-> <<0, 0>>,
     length |-> <<0, 0, 0, 0>>, heap |-> 65, size_t |-> 0, big_malloc |-> TRUE,
     double_free_aborts |-> TRUE]

Uninits == {UninitZero, UninitStaleUL, UninitStaleUI}

-----------------------------------------------------------------------------
(* The stream *)

\* fread(dst, 1, k, fp) at position pos: the bytes dst holds afterwards (the
\* bytes read, then what dst held before), the count and the new position
Fread(f, pos, k, stale) ==
    LET avail == Max(0, Min(k, Len(f) - pos))
    IN  [bytes |-> SubSeq(f, pos + 1, pos + avail) \o SubSeq(stale, avail + 1, k),
         cnt |-> avail,
         pos |-> pos + avail]

\* fseek(fp, d, SEEK_CUR) and fseek(fp, p, SEEK_SET): a seek before the start
\* of the file fails and leaves the position alone
SeekCur(pos, d) == IF pos + d < 0 THEN pos ELSE pos + d
SeekSet(pos, p) == IF p < 0 THEN pos ELSE p

\* read_tag: the group number, then the element number
read_tag(f, pos, u) ==
    LET tag(g, e) == [tag |-> <<U16(g.bytes), U16(e.bytes)>>,
                      cnt |-> g.cnt + e.cnt,
                      pos |-> e.pos]
        element(g) == tag(g, Fread(f, g.pos, 2, SubSeq(u.tag, 3, 4)))
    IN  element(Fread(f, pos, 2, SubSeq(u.tag, 1, 2)))

\* a reader of Item headers that takes the tag and leaves the length field
\* in the stream
read_item_header_tag_only(f, pos, u) ==
    LET iheader_create(t) ==
            [ok |-> t.tag \in {TAG_ITEM, TAG_ITEM_DELIM, TAG_SQ_DELIM},
             tag |-> t.tag,
             length |-> <<0, 0>>,
             cnt |-> t.cnt,
             pos |-> t.pos]
    IN  iheader_create(read_tag(f, pos, u))

\* iheader_create and read_item_header: NULL unless the tag is an Item tag
read_item_header(f, pos, u) ==
    LET iheader_create(t, l) ==
            [ok |-> t.tag \in {TAG_ITEM, TAG_ITEM_DELIM, TAG_SQ_DELIM},
             tag |-> t.tag,
             length |-> U32(l.bytes),
             cnt |-> t.cnt + l.cnt,
             pos |-> l.pos]
        length(t) == iheader_create(t, Fread(f, t.pos, 4, u.length))
    IN  length(read_tag(f, pos, u))

\* read_element_header followed by eheader_create
read_element_header(f, pos, implicit, u) ==
    LET eheader_create(tag, vr, length, cnt, at) ==
            [ok |-> dcm_is_valid_tag(tag) /\ dcm_is_valid_vr(vr),
             tag |-> tag, vr |-> vr, length |-> length, cnt |-> cnt,
             pos |-> at, mode |-> implicit]
        implicit_length(t, l) ==
            eheader_create(t.tag, dcm_dict_lookup_vr(t.tag), U32(l.bytes),
                           t.cnt + l.cnt, l.pos)
        short_length(t, v, s) ==
            eheader_create(t.tag, v.vr, <<0, U16(s.bytes)>>,
                           t.cnt + v.cnt + s.cnt, s.pos)
        long_length(t, v, r, l) ==
            eheader_create(t.tag, v.vr, U32(l.bytes),
                           t.cnt + v.cnt + r.cnt + l.cnt, l.pos)
        reserved(t, v, r) ==
            IF U16(r.bytes) # 0
            THEN [ok |-> FALSE, tag |-> t.tag, vr |-> v.vr,
                  length |-> <<0, 0>>, cnt |-> t.cnt + v.cnt + r.cnt,
                  pos |-> r.pos, mode |-> implicit]
            ELSE long_length(t, v, r, Fread(f, r.pos, 4, u.length))
        explicit_vr(t, v) ==
            IF v.vr \in ShortLengthVRs
            THEN short_length(t, v, Fread(f, v.pos, 2, u.short_length))
            ELSE reserved(t, v, Fread(f, v.pos, 2, u.reserved))
        read_vr(v) == [vr |-> vr_string(v.bytes), cnt |-> v.cnt, pos |-> v.pos]
        header(t) ==
            IF implicit
            THEN implicit_length(t, Fread(f, t.pos, 4, u.length))
            ELSE explicit_vr(t, read_vr(Fread(f, t.pos, 2, u.vr)))
    IN  header(read_tag(f, pos, u))

-----------------------------------------------------------------------------
(* The Value Decoder *)

\* isspace in the C locale
isspace(b) == b = 32 \/ (b >= 9 /\ b <= 13)

\* the C string a buffer holds: its bytes before the first NUL
RECURSIVE CString(_)
CString(b) ==
    IF b = <<>> \/ Head(b) = 0 THEN <<>> ELSE <<Head(b)>> \o CString(Tail(b))

\* the tokens strtok(string, "\\") hands out one after the other: the maximal
\* runs of bytes other than the backslash (92); cur is the run being read
RECURSIVE strtok(_, _)
strtok(s, cur) ==
    IF s = <<>>
    THEN IF cur = <<>> THEN <<>> ELSE <<cur>>
    ELSE IF Head(s) = 92
         THEN (IF cur = <<>> THEN <<>> ELSE <<cur>>) \o strtok(Tail(s), <<>>)
         ELSE strtok(Tail(s), Append(cur, Head(s)))

\* parse_character_string: the substrings; *vm is their number
parse_character_string(string) ==
    IF Len(string) = 0 THEN << <<>> >> ELSE strtok(string, <<>>)

\* a pointer into the string buffer of thread b, at bytes from its start;
\* b = 0 for NULL
NullPointer == [b |-> 0, at |-> 0]

\* one call strtok(s, "\\") on the memory mem (the buffers of the threads,
\* each ending with a NUL), s = NullPointer for strtok(NULL, "\\") with the
\* kept pointer old: the token returned, the pointer kept, and the memory
\* with the NUL written over the delimiter that ends the token
strtok_call(s, old, mem) ==
    LET from == IF s = NullPointer THEN old ELSE s
        result(start, end) ==
            IF mem[from.b][start + 1] = 0
            THEN [token |-> NullPointer, olds |-> [b |-> from.b, at |-> start],
                  mem |-> mem]
            ELSE IF mem[from.b][end + 1] = 0
            THEN [token |-> [b |-> from.b, at |-> start],
                  olds |-> [b |-> from.b, at |-> end], mem |-> mem]
            ELSE [token |-> [b |-> from.b, at |-> start],
                  olds |-> [b |-> from.b, at |-> end + 1],
                  mem |-> [mem EXCEPT ![from.b][end + 1] = 0]]
        \* strcspn: the first delimiter or NUL from start on
        token(start) ==
            result(start,
                   CHOOSE e \in start..(Len(mem[from.b]) - 1) :
                       /\ mem[from.b][e + 1] \in {0, 92}
                       /\ \A j \in start..(e - 1) : mem[from.b][j + 1] \notin {0, 92})
    IN  \* strspn: the first byte from the pointer on that is no delimiter
        token(CHOOSE b \in from.at..(Len(mem[from.b]) - 1) :
                  /\ mem[from.b][b + 1] # 92
                  /\ \A j \in from.at..(b - 1) : mem[from.b][j + 1] = 92)

NoElement == [tag |-> <<0, 0>>, vr |-> "", vm |-> 0, value |-> <<>>]

\* what read_element hands back: the element (ok), NULL (~ok, ~abort) or a
\* crash (abort); n is what it adds to the byte counter *n, pos the position
\* it leaves the stream at, modes the modes of the headers read inside it,
\* leaked the number of Item Data Sets it has created and neither handed
\* back nor destroyed
Outcome(ok, abort, elem, n, pos, modes) ==
    [ok |-> ok, abort |-> abort, elem |-> elem, n |-> n, pos |-> pos,
     modes |-> modes, leaked |-> 0]

\* read_element, character strings (lines 357-495)
read_element_string(f, header, pos, u) ==
    LET element(strings, r) ==
            IF header.vr \in SingleValuedVRs
            THEN IF Len(strings) > 1
                 THEN Outcome(FALSE, FALSE, NoElement, r.cnt, r.pos, {})
                 ELSE IF Len(strings) = 0
                 \* strings[0] is read from an array of no elements
                 THEN IF u.heap = 0
                      THEN Outcome(FALSE, TRUE, NoElement, r.cnt, r.pos, {})
                      ELSE Outcome(TRUE, FALSE,
                                   [tag |-> header.tag, vr |-> header.vr,
                                    vm |-> 1, value |-> << <<u.heap>> >>],
                                   r.cnt, r.pos, {})
                 ELSE Outcome(TRUE, FALSE,
                              [tag |-> header.tag, vr |-> header.vr, vm |-> 1,
                               value |-> strings],
                              r.cnt, r.pos, {})
            ELSE Outcome(TRUE, FALSE,
                         [tag |-> header.tag, vr |-> header.vr,
                          vm |-> Len(strings), value |-> strings],
                         r.cnt, r.pos, {})
        value(length, r) ==
            IF length > 0 /\ header.vr # "UI" /\ isspace(r.bytes[length])
            THEN [r.bytes EXCEPT ![length] = 0]
            ELSE r.bytes
        parse(length, r) ==
            element(parse_character_string(CString(value(length, r))), r)
        read(length) == parse(length, Fread(f, pos, length, Rep(u.heap, length)))
    IN  read(Int32(header.length))

\* the loop "for (i = 0; i < vm; i++) *n += fread(&val, 1, size, fp)": the
\* values read, each as its little-endian bytes; val keeps its bytes after a
\* short read
RECURSIVE read_values(_, _, _, _, _, _)
read_values(f, pos, size, left, val, acc) ==
    LET next(r) == read_values(f, r.pos, size, left - 1, r.bytes,
                               [values |-> Append(acc.values, r.bytes),
                                n |-> acc.n + r.cnt])
    IN  IF left = 0
        THEN [values |-> acc.values, n |-> acc.n, pos |-> pos]
        ELSE next(Fread(f, pos, size, val))

\* read_element, fixed-width numeric values (lines 631-742)
read_element_numeric(f, header, pos, u) ==
    LET element(vm, r) ==
            Outcome(TRUE, FALSE,
                    [tag |-> header.tag, vr |-> header.vr, vm |-> vm,
                     value |-> r.values],
                    r.n, r.pos, {})
        read(size, vm) ==
            element(vm, read_values(f, pos, size, vm, Rep(u.heap, size),
                                    [values |-> <<>>, n |-> 0]))
        sized(size) == read(size, Int32(header.length) \div size)
    IN  sized(NumericSize(header.vr))

\* read_element, opaque values (lines 743-778)
read_element_opaque(f, header, pos, u) ==
    LET element(r) ==
            IF header.vr \in OpaqueVRs
            THEN Outcome(TRUE, FALSE,
                         [tag |-> header.tag, vr |-> header.vr, vm |-> 1,
                          value |-> r.bytes],
                         r.cnt, r.pos, {})
            ELSE Outcome(FALSE, FALSE, NoElement, r.cnt, r.pos, {})
        read(length) == element(Fread(f, pos, length, Rep(u.heap, length)))
    IN  read(Int32(header.length))

\* (size_t) n < (uint32_t) u: a counter that went below zero has wrapped
\* around to a value no 32-bit length exceeds
LtSize(n, u) == n >= 0 /\ LtU32(n, u)

Walk(ok, abort, pos, n, list, modes) ==
    [ok |-> ok, abort |-> abort, pos |-> pos, n |-> n, list |-> list,
     modes |-> modes, leaked |-> 0]

RECURSIVE read_element(_, _, _, _, _)
RECURSIVE read_item_elements(_, _, _, _, _, _, _, _)
RECURSIVE read_items(_, _, _, _, _, _, _, _)

\* read_element, the loop over the elements of one Item (lines 572-623)
read_item_elements(f, pos, n_item, item_length, ds, implicit, u, modes) ==
    LET insert(t, h, e, m) ==
            \* lines 600-621: item_dataset is not destroyed
            IF ~e.ok
            THEN [Walk(FALSE, e.abort, e.pos, n_item, ds, m)
                     EXCEPT !.leaked = 1 + e.leaked]
            ELSE IF HasTag(ds, e.elem.tag)
            THEN [Walk(FALSE, FALSE, e.pos, n_item, ds, m)
                     EXCEPT !.leaked = 1]
            ELSE read_item_elements(f, e.pos,
                                    n_item + t.cnt - 4 + h.cnt + e.n,
                                    item_length, Append(ds, e.elem),
                                    implicit, u, m)
        element(t, h, e) == insert(t, h, e, modes \cup {h.mode} \cup e.modes)
        header(t, h) ==
            \* lines 588-598: item_dataset is not destroyed
            IF ~h.ok
            THEN [Walk(FALSE, FALSE, h.pos, n_item, ds, modes \cup {h.mode})
                     EXCEPT !.leaked = 1]
            ELSE element(t, h, read_element(f, h, h.pos, implicit, u))
        item_tag(t) ==
            IF t.tag = TAG_ITEM_DELIM
            THEN Walk(TRUE, FALSE, SeekCur(t.pos, 4), n_item + t.cnt + 4, ds,
                      modes)
            ELSE header(t, read_element_header(f, SeekCur(t.pos, -4),
                                               implicit, u))
    IN  IF ~LtSize(n_item, item_length)
        THEN Walk(TRUE, FALSE, pos, n_item, ds, modes)
        ELSE item_tag(read_tag(f, pos, u))

\* read_element, the loop over the Items of a Sequence (lines 517-628)
read_items(f, pos, n_seq, length, items, implicit, u, modes) ==
    LET item(ih, it) ==
            IF ~it.ok
            THEN [Walk(FALSE, it.abort, it.pos, n_seq, items, it.modes)
                     EXCEPT !.leaked = it.leaked]
            ELSE read_items(f, it.pos, n_seq + ih.cnt + it.n, length,
                            Append(items, it.list), implicit, u, it.modes)
        item_header(ih) ==
            IF ~ih.ok
            THEN Walk(FALSE, FALSE, ih.pos, n_seq, items, modes)
            ELSE IF ih.tag = TAG_SQ_DELIM
            THEN Walk(TRUE, FALSE, ih.pos, n_seq + ih.cnt, items, modes)
            ELSE IF ih.tag # TAG_ITEM
            THEN Walk(FALSE, FALSE, ih.pos, n_seq, items, modes)
            ELSE item(ih, read_item_elements(f, ih.pos, 0, ih.length, <<>>,
                                             implicit, u, modes))
    IN  IF ~LtSize(n_seq, length)
        THEN Walk(TRUE, FALSE, pos, n_seq, items, modes)
        ELSE item_header(read_item_header(f, pos, u))

\* read_element (lines 325-780)
read_element(f, header, pos, implicit, u) ==
    LET sequence(r) ==
            IF r.ok
            THEN Outcome(TRUE, FALSE,
                         [tag |-> header.tag, vr |-> "SQ", vm |-> 1,
                          value |-> r.list],
                         r.n, r.pos, r.modes)
            ELSE [Outcome(FALSE, r.abort, NoElement, 0, r.pos, r.modes)
                     EXCEPT !.leaked = r.leaked]
    IN  IF header.vr \in CharacterStringVRs
        THEN read_element_string(f, header, pos, u)
        ELSE IF header.vr = "SQ"
        THEN IF header.length = <<0, 0>>
             THEN Outcome(TRUE, FALSE,
                          [tag |-> header.tag, vr |-> "SQ", vm |-> 1,
                           value |-> <<>>],
                          0, pos, {})
             ELSE sequence(read_items(f, pos, 0, header.length, <<>>,
                                      implicit, u, {}))
        ELSE IF header.vr \in NumericVRs
        THEN read_element_numeric(f, header, pos, u)
        ELSE read_element_opaque(f, header, pos, u)

-----------------------------------------------------------------------------
(* dcm_file_read_file_meta *)

\* dcm_element_get_value_UL(element, 0) and its likes assert the element's
\* VR and index; HasValue tells whether the assertions pass
HasValue(elem, vr) == elem.vr = vr /\ elem.vm >= 1

\* what dcm_file_read_file_meta returns ("dataset", "NULL", or "abort" when
\* the process dies in it) and the state it leaves
MetaResult(ret, ds, pos, off, uid, modes) ==
    [ret |-> ret, ds |-> ds, pos |-> pos, offset |-> off, uid |-> uid,
     modes |-> modes]

\* lines 943-958: record file->offset, cache the Transfer Syntax UID
meta_finish(ds, pos, uid, modes) ==
    IF ~HasTag(ds, TAG_TRANSFER_SYNTAX)
    THEN MetaResult("abort", <<>>, pos, pos, uid, modes)
    ELSE LET element == dcm_dataset_get(ds, TAG_TRANSFER_SYNTAX)
         IN  IF ~HasValue(element, "UI")
             THEN MetaResult("abort", <<>>, pos, pos, uid, modes)
             ELSE MetaResult("dataset", ds, pos, pos, element.value[1], modes)

\* lines 899-941: the loop over the elements of group 0x0002
RECURSIVE meta_loop(_, _, _, _, _, _, _, _, _)
meta_loop(f, pos, size, group_length, ds, off, uid, u, modes) ==
    LET insert(e, size2, m) ==
            IF ~e.ok
            THEN MetaResult(IF e.abort THEN "abort" ELSE "NULL",
                            <<>>, e.pos, off, uid, m)
            ELSE IF HasTag(ds, e.elem.tag)
            THEN MetaResult("NULL", <<>>, e.pos, off, uid, m)
            ELSE IF ~LtU32(size2, group_length)
            THEN meta_finish(Append(ds, e.elem), e.pos, uid, m)
            ELSE meta_loop(f, e.pos, size2, group_length, Append(ds, e.elem),
                           off, uid, u, m)
        element(h, e) ==
            insert(e, size + h.cnt + e.n, modes \cup {h.mode} \cup e.modes)
        header(h) ==
            IF ~h.ok
            \* dcm_element_destroy(element) on an element already destroyed
            THEN MetaResult(IF u.double_free_aborts THEN "abort" ELSE "NULL",
                            <<>>, h.pos, off, uid, modes \cup {h.mode})
            ELSE IF h.tag[1] # 2
            THEN meta_finish(ds, h.pos, uid, modes \cup {h.mode})
            ELSE element(h, read_element(f, h, h.pos, FALSE, u))
    IN  header(read_element_header(f, pos, FALSE, u))

\* dcm_file_read_file_meta (lines 816-959), called with the stream at pos
dcm_file_read_file_meta(f, pos, off, uid, u) ==
    LET version(h1, e1, h2, e2) ==
            IF ~e2.ok
            THEN MetaResult(IF e2.abort THEN "abort" ELSE "NULL",
                            <<>>, e2.pos, off, uid,
                            {h1.mode, h2.mode} \cup e2.modes)
            \* the element is destroyed, the loop starts behind it
            ELSE meta_loop(f, e2.pos, h1.cnt + e1.n + h2.cnt + e2.n,
                           U32(e1.elem.value[1]), <<>>, off, uid, u,
                           {h1.mode, h2.mode} \cup e1.modes \cup e2.modes)
        version_header(h1, e1, h2) ==
            IF ~h2.ok
            THEN MetaResult("NULL", <<>>, h2.pos, off, uid, {h1.mode, h2.mode})
            ELSE version(h1, e1, h2, read_element(f, h2, h2.pos, FALSE, u))
        group_length(h1, e1) ==
            IF ~e1.ok
            THEN MetaResult(IF e1.abort THEN "abort" ELSE "NULL",
                            <<>>, e1.pos, off, uid, {h1.mode} \cup e1.modes)
            ELSE IF ~HasValue(e1.elem, "UL")
            THEN MetaResult("abort", <<>>, e1.pos, off, uid,
                            {h1.mode} \cup e1.modes)
            ELSE version_header(h1, e1,
                                read_element_header(f, e1.pos, FALSE, u))
        group_length_header(h1) ==
            IF ~h1.ok
            THEN MetaResult("NULL", <<>>, h1.pos, off, uid, {h1.mode})
            ELSE group_length(h1, read_element(f, h1, h1.pos, FALSE, u))
        check_prefix(prefix) ==
            IF prefix.bytes # DICM
            THEN MetaResult("NULL", <<>>, prefix.pos, off, uid, {})
            ELSE group_length_header(
                     read_element_header(f, prefix.pos, FALSE, u))
        skip_preamble(preamble) ==
            check_prefix(Fread(f, preamble.pos, 4, u.prefix))
    IN  skip_preamble(Fread(f, pos, 128, Rep(0, 128)))

-----------------------------------------------------------------------------
(* dcm_file_read_metadata *)

\* what dcm_file_read_metadata returns and the state it leaves; pixel tells
\* whether its loop ended at a Pixel Data tag
DataResult(ret, ds, pos, off, uid, pdo, modes, metaModes) ==
    [ret |-> ret, ds |-> ds, pos |-> pos, offset |-> off, uid |-> uid,
     pdo |-> pdo, modes |-> modes, metaModes |-> metaModes, pixel |-> FALSE]

\* a mode selection that compares only the first 17 characters of the UID,
\* as strncmp would
implicit_mode_prefix(uid) ==
    /\ uid # NULLSTR
    /\ Len(uid) >= Len(UID_IMPLICIT)
    /\ SubSeq(uid, 1, Len(UID_IMPLICIT)) = UID_IMPLICIT

\* lines 997-1002: implicit only for "1.2.840.10008.1.2"
implicit_mode(uid) == uid # NULLSTR /\ uid = UID_IMPLICIT

\* lines 1039-1045: the rewind to the first byte of the Pixel Data header
pixel_data_rewind(implicit) == IF implicit THEN -8 ELSE -12

\* lines 1011-1079: the loop over the elements of the Data Set
RECURSIVE data_loop(_, _, _, _, _, _, _, _, _, _)
data_loop(f, pos, ds, implicit, off, uid, pdo, u, modes, mm) ==
    LET insert(e, m) ==
            IF ~e.ok
            THEN DataResult(IF e.abort THEN "abort" ELSE "NULL",
                            <<>>, e.pos, off, uid, pdo, m, mm)
            ELSE IF HasTag(ds, e.elem.tag)
            THEN DataResult("NULL", <<>>, e.pos, off, uid, pdo, m, mm)
            ELSE data_loop(f, e.pos, Append(ds, e.elem), implicit, off, uid,
                           pdo, u, m, mm)
        element(h, e) == insert(e, modes \cup {h.mode} \cup e.modes)
        pixel_data(back, mh) ==
            [DataResult("dataset", ds, back, off, uid, back, mh, mm)
                EXCEPT !.pixel = TRUE]
        header(h, mh) ==
            IF ~h.ok
            THEN DataResult("NULL", <<>>, h.pos, off, uid, pdo, mh, mm)
            ELSE IF h.tag = TAG_TRAILING_PADDING
            THEN DataResult("dataset", ds, h.pos, off, uid, pdo, mh, mm)
            ELSE IF h.tag \in PixelDataTags
            THEN pixel_data(SeekCur(h.pos, pixel_data_rewind(implicit)), mh)
            ELSE IF h.tag[1] = 2
            THEN DataResult("NULL", <<>>, h.pos, off, uid, pdo, mh, mm)
            ELSE element(h, read_element(f, h, h.pos, implicit, u))
        next(h) == header(h, modes \cup {h.mode})
    IN  IF pos >= Len(f)
        THEN DataResult("dataset", ds, pos, off, uid, pdo, modes, mm)
        ELSE next(read_element_header(f, pos, implicit, u))

\* dcm_file_read_metadata (lines 975-1082)
dcm_file_read_metadata(f, pos, off, uid, pdo, u) ==
    LET file_meta(meta) ==
            IF meta.ret # "dataset"
            THEN DataResult(meta.ret, <<>>, meta.pos, meta.offset, meta.uid,
                            pdo, {}, meta.modes)
            ELSE data_loop(f, SeekSet(meta.pos, meta.offset), <<>>,
                           implicit_mode(meta.uid), meta.offset, meta.uid,
                           pdo, u, {}, meta.modes)
    IN  IF off = 0
        THEN file_meta(dcm_file_read_file_meta(f, pos, off, uid, u))
        ELSE data_loop(f, SeekSet(pos, off), <<>>, implicit_mode(uid), off,
                       uid, pdo, u, {}, {})

-----------------------------------------------------------------------------
(* Number of Frames *)

RECURSIVE skip_space(_)
skip_space(s) ==
    IF s # <<>> /\ isspace(Head(s)) THEN skip_space(Tail(s)) ELSE s

RECURSIVE digits(_, _)
digits(s, acc) ==
    IF s # <<>> /\ Head(s) >= 48 /\ Head(s) <= 57
    THEN digits(Tail(s), 10 * acc + (Head(s) - 48))
    ELSE acc

\* strtol(value, NULL, 10): white space, an optional sign, decimal digits
strtol(value) ==
    LET s == skip_space(value)
        signed == s # <<>> /\ Head(s) \in {43, 45}
        v == digits(IF signed THEN Tail(s) ELSE s, 0)
    IN  IF signed /\ Head(s) = 45 THEN -v ELSE v

\* (uint32_t) v: v modulo 2^32
to_uint32(v) ==
    IF v >= 0
    THEN W32(v)
    ELSE <<65535 - ((-v - 1) \div 65536), 65535 - ((-v - 1) % 65536)>>

\* get_num_frames (lines 1085-1102): found is its return value, abort tells
\* that dcm_element_get_value_IS stopped the process
get_num_frames(md) ==
    IF ~HasTag(md, TAG_NUMBER_OF_FRAMES)
    THEN [found |-> FALSE, abort |-> FALSE, num |-> <<0, 0>>]
    ELSE LET element == dcm_dataset_get(md, TAG_NUMBER_OF_FRAMES)
         IN  IF ~HasValue(element, "IS")
             THEN [found |-> FALSE, abort |-> TRUE, num |-> <<0, 0>>]
             ELSE [found |-> TRUE, abort |-> FALSE,
                   num |-> to_uint32(strtol(element.value[1]))]

-----------------------------------------------------------------------------
(* dcm_file_read_bot *)

\* a loop over 0 .. num_frames - 1 is followed entry by entry up to this
\* many entries once the input is exhausted
MaxOffsets == 4

\* what read_bot and build_bot return ("bot", "NULL" or "abort"), the
\* position they leave the stream at, and whether they have used the stream
\* (touched), written behind the end of offsets (oob), or asked a header
\* that is NULL for its tag (null_header)
BotResult(ret, num, offsets, pos, touched, oob) ==
    [ret |-> ret, bot |-> [num_frames |-> num, offsets |-> offsets],
     pos |-> pos, touched |-> touched, oob |-> oob, null_header |-> FALSE]

NoBot(ret, pos, touched) == BotResult(ret, <<0, 0>>, <<>>, pos, touched, FALSE)

\* a reader of the BOT Item that takes its entries for 16-bit values
read_bot_values_u16(f, pos, num_frames, tmp_value, offsets) ==
    BotResult("bot", num_frames,
              [k \in 1..(IF IsBig(num_frames) THEN MaxOffsets
                         ELSE Int32(num_frames)) |->
                  <<0, U16(Fread(f, pos + 2 * (k - 1), 2, tmp_value).bytes)>>],
              pos + 2 * (IF IsBig(num_frames) THEN MaxOffsets
                         ELSE Int32(num_frames)),
              TRUE, FALSE)

\* lines 1184-1195: the offsets read from the value of the BOT Item
RECURSIVE read_bot_values(_, _, _, _, _)
read_bot_values(f, pos, num_frames, tmp_value, offsets) ==
    LET value(r) ==
            IF U32(r.bytes) = TAG_ITEM
            THEN NoBot("NULL", r.pos, TRUE)
            ELSE read_bot_values(f, r.pos, num_frames, r.bytes,
                                 Append(offsets, U32(r.bytes)))
    IN  IF ~LtU32(Len(offsets), num_frames)
           \/ (Len(offsets) >= MaxOffsets /\ pos >= Len(f))
        THEN BotResult("bot", num_frames, offsets, pos, TRUE, FALSE)
        ELSE value(Fread(f, pos, 4, tmp_value))

\* lines 1196-1219: the BOT Item is empty
read_bot_empty(md, num_frames, pos, u) ==
    IF ~HasTag(md, TAG_EXTENDED_OFFSET_TABLE)
    THEN NoBot("NULL", pos, TRUE)
    ELSE IF dcm_dataset_get(md, TAG_EXTENDED_OFFSET_TABLE).vr # "OV"
    THEN NoBot("abort", pos, TRUE)
    \* strtoull with base 64 yields 0: frame #2 is an error, whose path
    \* destroys the Item header a second time
    ELSE IF num_frames # <<0, 1>> /\ u.double_free_aborts
    THEN NoBot("abort", pos, TRUE)
    ELSE NoBot("NULL", pos, TRUE)

\* a reader without the test of lines 1134 and 1353
pixel_data_offset_unchecked(pdo) == FALSE

\* lines 1134 and 1353: "Read metadata first."
pixel_data_offset_unknown(pdo) == pdo = 0

\* dcm_file_read_bot (lines 1105-1222)
dcm_file_read_bot(f, pos, uid, pdo, md, u) ==
    LET item(nf, iheader) ==
            IF ~iheader.ok \/ iheader.tag # TAG_ITEM
            THEN NoBot("NULL", iheader.pos, TRUE)
            \* malloc(num_frames * sizeof(ssize_t *))
            ELSE IF IsBig(nf.num) /\ ~u.big_malloc
            THEN NoBot("NULL", iheader.pos, TRUE)
            ELSE IF iheader.length # <<0, 0>>
            THEN read_bot_values(f, iheader.pos, nf.num, u.length, <<>>)
            ELSE read_bot_empty(md, nf.num, iheader.pos, u)
        pixel_data(nf, eheader) ==
            \* eheader_get_tag(NULL)
            IF ~eheader.ok
            THEN [NoBot("abort", eheader.pos, TRUE)
                      EXCEPT !.null_header = TRUE]
            ELSE IF eheader.tag \notin PixelDataTags
            THEN NoBot("NULL", eheader.pos, TRUE)
            ELSE item(nf, read_item_header(f, eheader.pos, u))
        frames(nf) ==
            IF ~nf.found
            THEN NoBot(IF nf.abort THEN "abort" ELSE "NULL", pos, FALSE)
            ELSE IF nf.num = <<0, 0>>
            THEN NoBot("NULL", pos, FALSE)
            ELSE IF pixel_data_offset_unknown(pdo)
            THEN NoBot("NULL", pos, FALSE)
            ELSE pixel_data(nf, read_element_header(f, SeekSet(pos, pdo),
                                                    FALSE, u))
    IN  IF uid = NULLSTR
        THEN NoBot("abort", pos, FALSE)
        ELSE IF ~dcm_is_encapsulated_transfer_syntax(uid)
        THEN NoBot("NULL", pos, FALSE)
        ELSE frames(get_num_frames(md))

-----------------------------------------------------------------------------
(* dcm_file_build_bot *)

PixelDescriptionUS == <<TAG_ROWS, TAG_COLUMNS, TAG_SAMPLES_PER_PIXEL,
                        TAG_BITS_ALLOCATED, TAG_BITS_STORED, TAG_PIXEL_REPR,
                        TAG_PLANAR_CONFIG>>

US(md, tag) == U16(dcm_dataset_get(md, tag).value[1])

\* create_pixel_description (lines 1225-1317): NULL (~ok) when an element is
\* missing, abort when a dcm_element_get_value_* assertion fails
create_pixel_description(md) ==
    LET missing == \E i \in 1..Len(PixelDescriptionUS) :
                       ~HasTag(md, PixelDescriptionUS[i])
        firstMissing == CHOOSE i \in 1..Len(PixelDescriptionUS) :
                            /\ ~HasTag(md, PixelDescriptionUS[i])
                            /\ \A j \in 1..(i - 1) : HasTag(md, PixelDescriptionUS[j])
        upto == IF missing THEN firstMissing - 1 ELSE Len(PixelDescriptionUS)
        badUS == \E i \in 1..upto :
                     ~HasValue(dcm_dataset_get(md, PixelDescriptionUS[i]), "US")
    IN  IF badUS
        THEN [ok |-> FALSE, abort |-> TRUE]
        ELSE IF missing \/ ~HasTag(md, TAG_PHOTOMETRIC)
        THEN [ok |-> FALSE, abort |-> FALSE]
        ELSE IF ~HasValue(dcm_dataset_get(md, TAG_PHOTOMETRIC), "CS")
        THEN [ok |-> FALSE, abort |-> TRUE]
        ELSE [ok |-> TRUE, abort |-> FALSE,
              rows |-> US(md, TAG_ROWS),
              columns |-> US(md, TAG_COLUMNS),
              samples_per_pixel |-> US(md, TAG_SAMPLES_PER_PIXEL),
              bits_allocated |-> US(md, TAG_BITS_ALLOCATED),
              bits_stored |-> US(md, TAG_BITS_STORED),
              pixel_representation |-> US(md, TAG_PIXEL_REPR),
              planar_configuration |-> US(md, TAG_PLANAR_CONFIG),
              photometric_interpretation |->
                  dcm_dataset_get(md, TAG_PHOTOMETRIC).value[1]]

\* lines 1404-1441: the scan over the Frame Items; i is Len(offsets)
RECURSIVE build_bot_scan(_, _, _, _, _, _, _)
build_bot_scan(f, pos, num_frames, current_offset, offsets, oob, u) ==
    LET done(iheader) ==
            IF W32(Len(offsets)) # num_frames
            THEN BotResult("NULL", <<0, 0>>, <<>>, iheader.pos, TRUE, oob)
            ELSE BotResult("bot", num_frames, offsets, iheader.pos, TRUE, oob)
        item(iheader, cur) ==
            \* iheader_get_tag(NULL)
            IF ~iheader.ok
            THEN [BotResult("abort", <<0, 0>>, <<>>, iheader.pos, TRUE, oob)
                      EXCEPT !.null_header = TRUE]
            ELSE IF iheader.tag = TAG_SQ_DELIM
            THEN done(iheader)
            ELSE IF iheader.tag # TAG_ITEM
            THEN BotResult("NULL", <<0, 0>>, <<>>, iheader.pos, TRUE, oob)
            \* feof(file->fp)
            ELSE IF iheader.cnt < 8
            THEN done(iheader)
            ELSE build_bot_scan(f, SeekCur(iheader.pos, Int32(iheader.length)),
                                num_frames, cur, Append(offsets, cur),
                                oob \/ ~LtU32(Len(offsets), num_frames), u)
        next(iheader) == item(iheader, current_offset + iheader.cnt)
    IN  next(read_item_header(f, pos, u))

\* lines 1380-1441: the encapsulated case
build_bot_encapsulated(f, pos, num_frames, u) ==
    LET first(iheader) ==
            IF ~iheader.ok \/ iheader.tag # TAG_ITEM
            THEN NoBot("NULL", iheader.pos, TRUE)
            ELSE build_bot_scan(f, SeekSet(iheader.pos, Int32(iheader.length)),
                                num_frames, u.size_t, <<>>, FALSE, u)
    IN  first(read_item_header(f, pos, u))

\* line 1449: offsets[i]
native_offset(i, desc) == i * desc.rows * desc.columns * desc.samples_per_pixel

\* lines 1442-1452: the case of a transfer syntax that is not encapsulated
build_bot_native(md, pos, num_frames) ==
    LET desc == create_pixel_description(md)
        shown == IF IsBig(num_frames) THEN MaxOffsets
                 ELSE Int32(num_frames)
    IN  \* desc->rows with desc == NULL
        IF ~desc.ok
        THEN NoBot("abort", pos, TRUE)
        ELSE BotResult("bot", num_frames,
                       [k \in 1..shown |-> native_offset(k - 1, desc)],
                       pos, TRUE, FALSE)

\* dcm_file_build_bot (lines 1331-1455)
dcm_file_build_bot(f, pos, uid, pdo, md, u) ==
    LET pixel_data(nf, eheader) ==
            \* eheader_get_tag(NULL)
            IF ~eheader.ok
            THEN [NoBot("abort", eheader.pos, TRUE)
                      EXCEPT !.null_header = TRUE]
            ELSE IF eheader.tag \notin PixelDataTags
            THEN NoBot("NULL", eheader.pos, TRUE)
            \* malloc(num_frames * sizeof(ssize_t *))
            ELSE IF IsBig(nf.num) /\ ~u.big_malloc
            THEN NoBot("NULL", eheader.pos, TRUE)
            ELSE IF uid = NULLSTR
            THEN NoBot("abort", eheader.pos, TRUE)
            ELSE IF dcm_is_encapsulated_transfer_syntax(uid)
            THEN build_bot_encapsulated(f, eheader.pos, nf.num, u)
            ELSE build_bot_native(md, eheader.pos, nf.num)
        frames(nf) ==
            IF ~nf.found
            THEN NoBot(IF nf.abort THEN "abort" ELSE "NULL", pos, FALSE)
            ELSE IF nf.num = <<0, 0>>
            THEN NoBot("NULL", pos, FALSE)
            ELSE IF pixel_data_offset_unknown(pdo)
            THEN NoBot("NULL", pos, FALSE)
            ELSE pixel_data(nf, read_element_header(f, SeekSet(pos, pdo),
                                                    FALSE, u))
    IN  frames(get_num_frames(md))

-----------------------------------------------------------------------------
(* dcm_file_read_frame *)

\* what dcm_file_read_frame returns ("frame", "NULL" or "abort"), the
\* position it leaves the stream at, the position it has sought (at, -1 when
\* it has not), and the length and the bytes of the value of the frame
FrameResult(ret, number, pos, at, length, value) ==
    [ret |-> ret, number |-> number, pos |-> pos, at |-> at,
     length |-> length, value |-> value]

\* dcm_bot_get_frame_offset, for a number of 1 .. num_frames
dcm_bot_get_frame_offset(bot, number) == bot.offsets[number]

\* lines 1476-1483: the distance from pixel_data_offset to the first frame
first_frame_offset(encapsulated, num_frames) ==
    IF encapsulated THEN 12 + 8 + 4 * num_frames ELSE 10

\* dcm_file_read_frame (lines 1458-1563), for a BOT of fewer than 2^31 frames
dcm_file_read_frame(f, pos, uid, pdo, md, bot, number, u) ==
    LET frame(at, length, r) ==
            FrameResult("frame", number, r.pos, at, length, r.bytes)
        \* malloc(length) and fread(value, 1, length, fp)
        value(at, p, length) ==
            IF length[1] # 0
            THEN IF ~u.big_malloc
                 THEN FrameResult("NULL", number, p, at, length, <<>>)
                 ELSE FrameResult("frame", number, Max(p, Len(f)), at, length,
                                  SubSeq(f, p + 1, Len(f)))
            ELSE frame(at, length,
                       Fread(f, p, length[2], Rep(u.heap, length[2])))
        item(at, iheader) ==
            IF ~iheader.ok \/ iheader.tag # TAG_ITEM
            THEN FrameResult("NULL", number, iheader.pos, at, <<0, 0>>, <<>>)
            ELSE value(at, iheader.pos, iheader.length)
        described(at, desc) ==
            IF ~desc.ok
            THEN FrameResult(IF desc.abort THEN "abort" ELSE "NULL", number,
                             at, at, <<0, 0>>, <<>>)
            ELSE IF dcm_is_encapsulated_transfer_syntax(uid)
            THEN item(at, read_item_header(f, at, u))
            ELSE value(at, at,
                       W32(desc.rows * desc.columns * desc.samples_per_pixel))
        seek(at) == described(at, create_pixel_description(md))
    IN  IF number = 0
        THEN FrameResult("NULL", number, pos, -1, <<0, 0>>, <<>>)
        ELSE IF uid = NULLSTR
        THEN FrameResult("abort", number, pos, -1, <<0, 0>>, <<>>)
        ELSE seek(SeekSet(pos,
                          pdo
                          + first_frame_offset(
                                dcm_is_encapsulated_transfer_syntax(uid),
                                Int32(bot.num_frames))
                          + dcm_bot_get_frame_offset(bot, number)))

-----------------------------------------------------------------------------
(* The files of the model, built from their parts.  Beside its bytes a     *)
(* file records what its parts say about it: whether bytes 128..131 are    *)
(* DICM (magic), whether its File Meta group is complete and its Group     *)
(* Length exact (metaOk), the tags of group 0x0002 after Group Length      *)
(* (metaTags), the Transfer Syntax UID it declares (uid), the offset of    *)
(* the header of its top-level Pixel Data element (pixelAt, 0 if none)     *)
(* and whether it ends early (truncated).                                  *)

ExplicitElement(tag, vr, value) ==
    TagBytes(tag) \o vr_bytes[vr]
    \o (IF vr \in ShortLengthVRs THEN LE16(Len(value))
        ELSE <<0, 0>> \o LE32(W32(Len(value))))
    \o value

ExplicitHeaderUndefined(tag, vr) ==
    TagBytes(tag) \o vr_bytes[vr] \o <<0, 0>> \o LE32(UNDEFINED_LENGTH)

ImplicitElement(tag, value) == TagBytes(tag) \o LE32(W32(Len(value))) \o value

Item(value) == TagBytes(TAG_ITEM) \o LE32(W32(Len(value))) \o value
ItemUndefined(value) ==
    TagBytes(TAG_ITEM) \o LE32(UNDEFINED_LENGTH) \o value
    \o TagBytes(TAG_ITEM_DELIM) \o <<0, 0, 0, 0>>
SqDelim == TagBytes(TAG_SQ_DELIM) \o <<0, 0, 0, 0>>

\* a value padded to even length
Pad(value, b) == IF Len(value) % 2 = 1 THEN Append(value, b) ELSE value

Str_DOE == <<68, 79, 69, 94, 74, 32>>
Str_MONOCHROME2 == <<77, 79, 78, 79, 67, 72, 82, 79, 77, 69, 50, 32>>
Str_X == <<88, 32>>

Preamble == Rep(0, 128)

\* the File Meta group after Group Length
MetaBody(uid, pad, version) ==
    (IF version THEN ExplicitElement(TAG_META_VERSION, "OB", <<0, 1>>)
     ELSE <<>>)
    \o ExplicitElement(TAG_TRANSFER_SYNTAX, "UI", Pad(uid, pad))

MetaTagsOf(version) ==
    IF version THEN <<TAG_META_VERSION, TAG_TRANSFER_SYNTAX>>
    ELSE <<TAG_TRANSFER_SYNTAX>>

\* preamble, prefix and File Meta group; slack is added to Group Length
Head10(prefix, uid, pad, version, slack) ==
    Preamble \o prefix
    \o ExplicitElement(TAG_GROUP_LENGTH, "UL",
                       LE32(W32(Len(MetaBody(uid, pad, version)) + slack)))
    \o MetaBody(uid, pad, version)

\* one element in the encoding of the Data Set
Element(implicit, tag, vr, value) ==
    IF implicit THEN ImplicitElement(tag, value)
    ELSE ExplicitElement(tag, vr, value)

SomeSequence(implicit) ==
    (IF implicit THEN TagBytes(TAG_SOME_SEQUENCE) \o LE32(UNDEFINED_LENGTH)
     ELSE ExplicitHeaderUndefined(TAG_SOME_SEQUENCE, "SQ"))
    \o ItemUndefined(Element(implicit, TAG_CODE_VALUE, "SH", Str_X))
    \o Item(Element(implicit, TAG_CODE_VALUE, "SH", Str_X))
    \o SqDelim

\* the Image Pixel module with Number of Frames frames of 2 x 2 bytes
PixelModule(implicit, frames) ==
    Element(implicit, TAG_SAMPLES_PER_PIXEL, "US", LE16(1))
    \o Element(implicit, TAG_PHOTOMETRIC, "CS", Str_MONOCHROME2)
    \o Element(implicit, TAG_PLANAR_CONFIG, "US", LE16(0))
    \o Element(implicit, TAG_NUMBER_OF_FRAMES, "IS", frames)
    \o Element(implicit, TAG_ROWS, "US", LE16(2))
    \o Element(implicit, TAG_COLUMNS, "US", LE16(2))
    \o Element(implicit, TAG_BITS_ALLOCATED, "US", LE16(8))
    \o Element(implicit, TAG_BITS_STORED, "US", LE16(8))
    \o Element(implicit, TAG_PIXEL_REPR, "US", LE16(0))

\* the Data Set before Pixel Data
Body(implicit, frames) ==
    Element(implicit, TAG_PATIENT_NAME, "PN", Str_DOE)
    \o PixelModule(implicit, frames)
    \o SomeSequence(implicit)

Frames_2 == <<50, 32>>
Frames_0 == <<48, 32>>
Frames_minus1 == <<45, 49>>

NativePixelData(implicit) ==
    Element(implicit, TAG_PIXEL_DATA, "OW", <<1, 2, 3, 4, 5, 6, 7, 8>>)

\* encapsulated Pixel Data: the BOT Item, two Frame Items, the delimiter
EncapsulatedPixelData(bot) ==
    ExplicitHeaderUndefined(TAG_PIXEL_DATA, "OB")
    \o Item(bot) \o Item(<<1, 2, 3, 4>>) \o Item(<<5, 6>>) \o SqDelim

Bot_2 == LE32(<<0, 0>>) \o LE32(<<0, 12>>)

\* encapsulated Pixel Data with an empty BOT Item and some Frame Items
EncapsulatedFrames(frames) ==
    ExplicitHeaderUndefined(TAG_PIXEL_DATA, "OB") \o Item(<<>>) \o frames
    \o SqDelim

\* a file whose preamble starts with some bytes
WithPreamble(name, file, bytes) ==
    [file EXCEPT !.name = name,
                 !.bytes = bytes \o SubSeq(file.bytes, Len(bytes) + 1,
                                           Len(file.bytes))]

FileRec(name, bytes, magic, metaOk, metaTags, uid, pixelAt, truncated) ==
    [name |-> name, bytes |-> bytes, magic |-> magic, metaOk |-> metaOk,
     metaTags |-> metaTags, uid |-> uid, pixelAt |-> pixelAt,
     truncated |-> truncated]

\* a complete file: head, Data Set, Pixel Data (pixel = <<>> for none)
Whole(name, uid, pad, version, slack, body, pixel) ==
    FileRec(name, Head10(DICM, uid, pad, version, slack) \o body \o pixel,
            TRUE, slack = 0, MetaTagsOf(version),
            IF pad = 0 THEN uid ELSE Pad(uid, pad),
            IF pixel = <<>> THEN 0
            ELSE Len(Head10(DICM, uid, pad, version, slack)) + Len(body),
            FALSE)

\* the first k bytes of a file
Cut(name, file, k) ==
    [file EXCEPT !.name = name, !.bytes = SubSeq(file.bytes, 1, k),
                 !.truncated = TRUE, !.magic = (k >= 132 /\ file.magic),
                 !.metaOk = FALSE,
                 !.pixelAt = IF file.pixelAt + 4 <= k THEN file.pixelAt ELSE 0]

ExplicitNative ==
    Whole("explicit native", UID_EXPLICIT, 0, TRUE, 0,
          Body(FALSE, Frames_2), NativePixelData(FALSE))
ImplicitNative ==
    Whole("implicit native", UID_IMPLICIT, 0, TRUE, 0,
          Body(TRUE, Frames_2), NativePixelData(TRUE))
Encapsulated ==
    Whole("encapsulated", UID_JPEG, 0, TRUE, 0,
          Body(FALSE, Frames_2), EncapsulatedPixelData(Bot_2))
EncapsulatedEmptyBot ==
    Whole("encapsulated, empty BOT", UID_JPEG, 0, TRUE, 0,
          Body(FALSE, Frames_2), EncapsulatedPixelData(<<>>))

Files == <<
    ExplicitNative,
    ImplicitNative,
    Encapsulated,
    EncapsulatedEmptyBot,
    \* File Meta of Group Length and Transfer Syntax UID only
    Whole("minimal meta", UID_EXPLICIT, 0, FALSE, 0, <<>>, <<>>),
    Whole("minimal meta, data", UID_EXPLICIT, 0, FALSE, 0,
          Body(FALSE, Frames_2), NativePixelData(FALSE)),
    \* the prefix is not DICM
    [ExplicitNative EXCEPT !.name = "bad prefix", !.magic = FALSE,
        !.metaOk = FALSE,
        !.bytes = [ExplicitNative.bytes EXCEPT ![132] = 88]],
    \* 132 bytes without the prefix, then a complete file: DICM at 260
    [ExplicitNative EXCEPT !.name = "DICM at 260", !.magic = FALSE,
        !.metaOk = FALSE,
        !.bytes = Preamble \o <<88, 88, 88, 88>> \o ExplicitNative.bytes,
        !.pixelAt = 132 + ExplicitNative.pixelAt],
    FileRec("100 bytes", Rep(0, 100), FALSE, FALSE, <<>>, NULLSTR, 0, TRUE),
    FileRec("130 bytes", Preamble \o <<68, 73>>, FALSE, FALSE, <<>>,
            NULLSTR, 0, TRUE),
    Whole("no pixel data", UID_EXPLICIT, 0, TRUE, 0, Body(FALSE, Frames_2), <<>>),
    Whole("implicit, no pixel data", UID_IMPLICIT, 0, TRUE, 0,
          Body(TRUE, Frames_2), <<>>),
    \* Group Length says more than the group holds
    Whole("long group length", UID_EXPLICIT, 0, TRUE, 100,
          Body(FALSE, Frames_2), NativePixelData(FALSE)),
    \* the UID is padded with a space, not with NUL
    Whole("space-padded UID", UID_IMPLICIT, 32, TRUE, 0,
          Body(FALSE, Frames_2), NativePixelData(FALSE)),
    Whole("zero frames", UID_JPEG, 0, TRUE, 0,
          Body(FALSE, Frames_0), EncapsulatedPixelData(Bot_2)),
    Whole("minus one frame, native", UID_EXPLICIT, 0, TRUE, 0,
          Body(FALSE, Frames_minus1), NativePixelData(FALSE)),
    Whole("minus one frame, encapsulated", UID_JPEG, 0, TRUE, 0,
          Body(FALSE, Frames_minus1), EncapsulatedPixelData(Bot_2)),
    \* Pixel Data written with a VR of the short-length class
    Whole("pixel data as US", UID_EXPLICIT, 0, TRUE, 0,
          Body(FALSE, Frames_2),
          ExplicitElement(TAG_PIXEL_DATA, "US", <<1, 2, 3, 4, 5, 6, 7, 8>>)),
    \* the input ends inside the value of Patient Name
    Cut("cut in a value",
        Whole("", UID_EXPLICIT, 0, TRUE, 0, Body(FALSE, Frames_2), <<>>),
        Len(Head10(DICM, UID_EXPLICIT, 0, TRUE, 0)) + 8 + 3),
    \* the input ends after the tag of Pixel Data
    Cut("cut in the pixel data header", ExplicitNative,
        ExplicitNative.pixelAt + 4),
    Cut("cut in the pixel data header, implicit", ImplicitNative,
        ImplicitNative.pixelAt + 4),
    \* the BOT Item is empty, the Data Set holds the 64-bit offsets 0 and 12
    Whole("encapsulated, empty BOT, extended offset table", UID_JPEG, 0,
          TRUE, 0,
          Body(FALSE, Frames_2)
          \o ExplicitElement(TAG_EXTENDED_OFFSET_TABLE, "OV",
                             LE32(<<0, 0>>) \o LE32(<<0, 0>>)
                             \o LE32(<<0, 12>>) \o LE32(<<0, 0>>)),
          EncapsulatedPixelData(<<>>)),
    \* Number of Frames is 2, the Pixel Data holds three Frame Items
    Whole("three frame items", UID_JPEG, 0, TRUE, 0, Body(FALSE, Frames_2),
          EncapsulatedFrames(Item(<<1, 2, 3, 4>>) \o Item(<<5, 6>>)
                             \o Item(<<7, 8>>))),
    \* Number of Frames is 2, the Pixel Data holds one Frame Item
    Whole("one frame item", UID_JPEG, 0, TRUE, 0, Body(FALSE, Frames_2),
          EncapsulatedFrames(Item(<<1, 2, 3, 4>>))),
    \* the preamble starts with two Items and a Sequence Delimitation Item
    WithPreamble("two frame items, two items in the preamble",
                 EncapsulatedEmptyBot,
                 Item(<<1, 2, 3, 4>>) \o Item(<<5, 6>>) \o SqDelim),
    WithPreamble("three frame items, two items in the preamble",
                 Whole("", UID_JPEG, 0, TRUE, 0, Body(FALSE, Frames_2),
                       EncapsulatedFrames(Item(<<1, 2, 3, 4>>)
                                          \o Item(<<5, 6>>)
                                          \o Item(<<7, 8>>))),
                 Item(<<1, 2, 3, 4>>) \o Item(<<5, 6>>) \o SqDelim),
    WithPreamble("two frame items, three items in the preamble",
                 EncapsulatedEmptyBot,
                 Item(<<1, 2, 3, 4>>) \o Item(<<5, 6>>) \o Item(<<7, 8>>)
                 \o SqDelim),
    \* two frames of 2 x 2 values of 16 bits
    Whole("explicit native, 16 bits", UID_EXPLICIT, 0, TRUE, 0,
          Element(FALSE, TAG_PATIENT_NAME, "PN", Str_DOE)
          \o Element(FALSE, TAG_SAMPLES_PER_PIXEL, "US", LE16(1))
          \o Element(FALSE, TAG_PHOTOMETRIC, "CS", Str_MONOCHROME2)
          \o Element(FALSE, TAG_PLANAR_CONFIG, "US", LE16(0))
          \o Element(FALSE, TAG_NUMBER_OF_FRAMES, "IS", Frames_2)
          \o Element(FALSE, TAG_ROWS, "US", LE16(2))
          \o Element(FALSE, TAG_COLUMNS, "US", LE16(2))
          \o Element(FALSE, TAG_BITS_ALLOCATED, "US", LE16(16))
          \o Element(FALSE, TAG_BITS_STORED, "US", LE16(16))
          \o Element(FALSE, TAG_PIXEL_REPR, "US", LE16(0)),
          ExplicitElement(TAG_PIXEL_DATA, "OW",
                          <<1, 2, 3, 4, 5, 6, 7, 8,
                            9, 10, 11, 12, 13, 14, 15, 16>>)),
    \* the input ends inside the second frame
    Cut("cut in the last frame", ExplicitNative, Len(ExplicitNative.bytes) - 3),
    \* the File Meta group ends with Implementation Version Name, an element
    \* of 10 bytes
    [ExplicitNative EXCEPT
        !.name = "short last File Meta element",
        !.bytes = SubSeq(ExplicitNative.bytes, 1, 140)
                  \o LE32(W32(Len(MetaBody(UID_EXPLICIT, 0, TRUE)) + 10))
                  \o MetaBody(UID_EXPLICIT, 0, TRUE)
                  \o ExplicitElement(TAG_IMPLEMENTATION_VERSION, "SH",
                                     <<86, 49>>)
                  \o SubSeq(ExplicitNative.bytes,
                            Len(Head10(DICM, UID_EXPLICIT, 0, TRUE, 0)) + 1,
                            Len(ExplicitNative.bytes)),
        !.metaTags = <<TAG_META_VERSION, TAG_TRANSFER_SYNTAX,
                       TAG_IMPLEMENTATION_VERSION>>,
        !.pixelAt = @ + 10],
    \* the input ends inside the Sequence of undefined length: before its
    \* Sequence Delimitation Item, and before the Item Delimitation Item
    Cut("cut before the sequence delimiter", ExplicitNative,
        ExplicitNative.pixelAt - 8),
    Cut("cut before the item delimiter", ExplicitNative,
        ExplicitNative.pixelAt - 16),
    Cut("cut before the item delimiter, implicit", ImplicitNative,
        ImplicitNative.pixelAt - 16)
>>

-----------------------------------------------------------------------------
(* The file handle and the calls made on it *)

\* how many public calls are made on a handle
MaxCalls == 4

\* the file the handle is open on
F == Files[fileId].bytes

\* the fields of struct _DcmFile, with the position of fp
Handle == [fpos |-> fpos, offset |-> offset, uid |-> transfer_syntax_uid,
           pdo |-> pixel_data_offset]

NoMetadata == [have |-> FALSE, ds |-> <<>>]

\* a Data Set that did not come from this handle: Number of Frames is "2"
ForeignMetadata ==
    <<[tag |-> TAG_NUMBER_OF_FRAMES, vr |-> "IS", vm |-> 1,
       value |-> << <<50>> >>]>>

\* the metadata argument of read_bot and build_bot
Metadata == IF metadata.have THEN metadata.ds ELSE ForeignMetadata

\* the value of Number of Frames as a signed integer, when md holds one
Frames(md) ==
    IF HasTag(md, TAG_NUMBER_OF_FRAMES)
       /\ HasValue(dcm_dataset_get(md, TAG_NUMBER_OF_FRAMES), "IS")
    THEN [known |-> TRUE,
          value |-> strtol(dcm_dataset_get(md, TAG_NUMBER_OF_FRAMES).value[1])]
    ELSE [known |-> FALSE, value |-> 0]

Call(op, res, post, frames) ==
    [op |-> op, ret |-> res.ret, res |-> res, pre |-> Handle, post |-> post,
     frames |-> frames]

NoFrames == [known |-> FALSE, value |-> 0]

\* dcm_file_create (lines 783-813)
Init ==
    /\ fileId \in 1..Len(Files)
    /\ fpos = 0
    /\ offset = 0
    /\ pixel_data_offset = 0
    /\ transfer_syntax_uid = NULLSTR
    /\ metadata = NoMetadata
    /\ alive = TRUE
    /\ hist = <<>>
    /\ vdIn = <<>>
    /\ vdOut = <<>>
    /\ olds = NullPointer
    /\ threads = <<>>

CanCall == alive /\ fileId > 0 /\ Len(hist) < MaxCalls

ReadFileMeta ==
    /\ CanCall
    /\ \E u \in Uninits :
        \E r \in {dcm_file_read_file_meta(F, fpos, offset, transfer_syntax_uid, u)} :
            /\ fpos' = r.pos
            /\ offset' = r.offset
            /\ transfer_syntax_uid' = r.uid
            /\ alive' = (r.ret # "abort")
            /\ hist' = Append(hist,
                              Call("read_file_meta", r,
                                   [fpos |-> r.pos, offset |-> r.offset,
                                    uid |-> r.uid, pdo |-> pixel_data_offset],
                                   NoFrames))
    /\ UNCHANGED <<fileId, pixel_data_offset, metadata, vdIn, vdOut, olds, threads>>

ReadMetadata ==
    /\ CanCall
    /\ \E u \in Uninits :
        \E r \in {dcm_file_read_metadata(F, fpos, offset, transfer_syntax_uid,
                                         pixel_data_offset, u)} :
            /\ fpos' = r.pos
            /\ offset' = r.offset
            /\ transfer_syntax_uid' = r.uid
            /\ pixel_data_offset' = r.pdo
            /\ alive' = (r.ret # "abort")
            /\ metadata' = IF r.ret = "dataset"
                           THEN [have |-> TRUE, ds |-> r.ds]
                           ELSE metadata
            /\ hist' = Append(hist,
                              Call("read_metadata", r,
                                   [fpos |-> r.pos, offset |-> r.offset,
                                    uid |-> r.uid, pdo |-> r.pdo],
                                   NoFrames))
    /\ UNCHANGED <<fileId, vdIn, vdOut, olds, threads>>

ReadBot ==
    /\ CanCall
    /\ \E u \in Uninits :
        \E r \in {dcm_file_read_bot(F, fpos, transfer_syntax_uid,
                                    pixel_data_offset, Metadata, u)} :
            /\ fpos' = r.pos
            /\ alive' = (r.ret # "abort")
            /\ hist' = Append(hist,
                              Call("read_bot", r, [Handle EXCEPT !.fpos = r.pos],
                                   Frames(Metadata)))
    /\ UNCHANGED <<fileId, offset, transfer_syntax_uid, pixel_data_offset,
                   metadata, vdIn, vdOut, olds, threads>>

BuildBot ==
    /\ CanCall
    /\ \E u \in Uninits :
        \E r \in {dcm_file_build_bot(F, fpos, transfer_syntax_uid,
                                     pixel_data_offset, Metadata, u)} :
            /\ fpos' = r.pos
            /\ alive' = (r.ret # "abort")
            /\ hist' = Append(hist,
                              Call("build_bot", r, [Handle EXCEPT !.fpos = r.pos],
                                   Frames(Metadata)))
    /\ UNCHANGED <<fileId, offset, transfer_syntax_uid, pixel_data_offset,
                   metadata, vdIn, vdOut, olds, threads>>

\* dcm_file_read_frame with a BOT an earlier call has returned, one of
\* fewer than 2^31 frames and of offsets below 2^31, and with the number of
\* one of its frames, or 0
ReadFrame ==
    /\ CanCall
    /\ \E i \in 1..Len(hist), u \in Uninits :
        /\ hist[i].ret = "bot"
        /\ ~IsBig(hist[i].res.bot.num_frames)
        /\ hist[i].op = "read_bot"
           => \A k \in 1..Len(hist[i].res.bot.offsets) :
                  ~IsBig(hist[i].res.bot.offsets[k])
        /\ \E number \in 0..Len(hist[i].res.bot.offsets) :
            \E r \in {dcm_file_read_frame(
                          F, fpos, transfer_syntax_uid, pixel_data_offset,
                          Metadata,
                          [num_frames |-> hist[i].res.bot.num_frames,
                           offsets |->
                               [k \in 1..Len(hist[i].res.bot.offsets) |->
                                   IF hist[i].op = "read_bot"
                                   THEN Int32(hist[i].res.bot.offsets[k])
                                   ELSE hist[i].res.bot.offsets[k]]],
                          number, u)} :
                /\ fpos' = r.pos
                /\ alive' = (r.ret # "abort")
                /\ hist' = Append(hist,
                                  Call("read_frame",
                                       r @@ [bot |-> i, md |-> Metadata,
                                             u |-> u],
                                       [Handle EXCEPT !.fpos = r.pos],
                                       Frames(Metadata)))
    /\ UNCHANGED <<fileId, offset, transfer_syntax_uid, pixel_data_offset,
                   metadata, vdIn, vdOut, olds, threads>>

\* main of dcm-dump (tools/dcm-dump.c, lines 12-76) on a path that can be
\* opened or not, given what dcm_file_read_file_meta and
\* dcm_file_read_metadata have returned on its handle ("none" for a call
\* not made): the exit status (or abort), and whether dcm_dataset_print was
\* called with the File Meta; crash says whether dcm_dataset_print(NULL),
\* whose code is not part of the tool, ends the process
main(exists, file_meta, md, crash) ==
    LET exit(ret, meta, data, printed) ==
            [ret |-> ret, created |-> exists, file_meta |-> meta,
             metadata |-> data, printed |-> printed]
    IN  IF ~exists
        THEN exit("EXIT_FAILURE", "none", "none", FALSE)
        ELSE IF file_meta = "abort"
        THEN exit("abort", file_meta, "none", FALSE)
        ELSE IF file_meta # "dataset" /\ crash
        THEN exit("abort", file_meta, "none", TRUE)
        ELSE IF md = "abort"
        THEN exit("abort", file_meta, md, TRUE)
        ELSE IF md # "dataset"
        THEN exit("EXIT_FAILURE", file_meta, md, TRUE)
        ELSE exit("EXIT_SUCCESS", file_meta, md, TRUE)

\* dcm-dump ends.  The calls main makes on its handle are the actions
\* ReadFileMeta and ReadMetadata: the history is that of a path that cannot
\* be opened, of a dcm_file_read_file_meta that has ended the process, alone
\* or through dcm_dataset_print(NULL), or of dcm_file_read_file_meta and
\* dcm_file_read_metadata on the new handle.
DcmDump ==
    /\ fileId > 0
    /\ \E exists \in BOOLEAN, crash \in BOOLEAN :
        /\ \/ ~exists /\ hist = <<>>
           \/ /\ exists
              /\ Len(hist) = 1
              /\ hist[1].op = "read_file_meta"
              /\ \/ hist[1].ret = "abort"
                 \/ hist[1].ret = "NULL" /\ crash
           \/ /\ exists
              /\ Len(hist) = 2
              /\ hist[1].op = "read_file_meta"
              /\ hist[1].ret = "dataset" \/ ~crash
              /\ hist[2].op = "read_metadata"
        /\ alive' = FALSE
        /\ hist' = Append(hist,
                          Call("dcm-dump",
                               main(exists,
                                    IF hist = <<>> THEN "none"
                                    ELSE hist[1].ret,
                                    IF Len(hist) < 2 THEN "none"
                                    ELSE hist[2].ret,
                                    crash),
                               Handle, NoFrames))
    /\ UNCHANGED <<fileId, fpos, offset, transfer_syntax_uid,
                   pixel_data_offset, metadata, vdIn, vdOut, olds, threads>>

Next ==
    ReadFileMeta \/ ReadMetadata \/ ReadBot \/ BuildBot \/ ReadFrame \/ DcmDump

Spec == Init /\ [][Next]_vars

-----------------------------------------------------------------------------
(* The value decoder on its own: one element of a character-string VR is   *)
(* read from a stream that holds its header and its raw value.             *)

\* how many bytes a raw value has at most
MaxRaw == 3

\* the bytes raw values are made of: the backslash, a letter, the space
VDBytes == {92, 65, 32}

VDRaws == UNION {[1..n -> VDBytes] : n \in 0..MaxRaw}

NoInput == [have |-> FALSE, vr |-> "LO", raw |-> <<>>]

InitVD ==
    /\ fileId = 0
    /\ fpos = 0
    /\ offset = 0
    /\ pixel_data_offset = 0
    /\ transfer_syntax_uid = NULLSTR
    /\ metadata = NoMetadata
    /\ alive = TRUE
    /\ hist = <<>>
    /\ vdIn = NoInput
    /\ vdOut = Outcome(FALSE, FALSE, NoElement, 0, 0, {})
    /\ olds = NullPointer
    /\ threads = <<>>

\* read_element_header, then read_element, on the element (0008,2111) of
\* some character-string VR, once
Decode ==
    \E vr \in CharacterStringVRs, raw \in VDRaws, u \in Uninits :
        \E h \in {read_element_header(
                      ExplicitElement(TAG_DERIVATION_DESCR, vr, raw),
                      0, FALSE, u)} :
            /\ ~vdIn.have
            /\ h.ok
            /\ vdIn' = [have |-> TRUE, vr |-> vr, raw |-> raw]
            /\ vdOut' = read_element(
                            ExplicitElement(TAG_DERIVATION_DESCR, vr, raw),
                            h, h.pos, FALSE, u)
            /\ UNCHANGED <<fileId, fpos, offset, transfer_syntax_uid,
                           pixel_data_offset, metadata, alive, hist, olds, threads>>

\* how many bytes the value of a numeric element has at most
MaxNumeric == 9

\* a value of L bytes: 1, 2, ..., L
NumericRaw(L) == [k \in 1..L |-> k]

\* read_element_header, then read_element, on the element (0008,2111) of
\* some fixed-width numeric VR and of some length, once
DecodeNumeric ==
    \E vr \in NumericVRs, L \in 0..MaxNumeric, u \in Uninits :
        \E h \in {read_element_header(
                      ExplicitElement(TAG_DERIVATION_DESCR, vr, NumericRaw(L)),
                      0, FALSE, u)} :
            /\ ~vdIn.have
            /\ h.ok
            /\ vdIn' = [have |-> TRUE, vr |-> vr, raw |-> NumericRaw(L)]
            /\ vdOut' = read_element(
                            ExplicitElement(TAG_DERIVATION_DESCR, vr,
                                            NumericRaw(L)),
                            h, h.pos, FALSE, u)
            /\ UNCHANGED <<fileId, fpos, offset, transfer_syntax_uid,
                           pixel_data_offset, metadata, alive, hist, olds, threads>>

\* Sequences as trees.  A node is the leaf element (0008,0100) SH "X " or
\* a Sequence (0040,A730) of Items; an Item holds nodes (kids).  undef says
\* that the length field is 0xFFFFFFFF; slack is what a defined length
\* field says beyond the size of the content (0: the exact length).
SeqLeaf == [leaf |-> TRUE, undef |-> FALSE, slack |-> 0, items |-> <<>>]

\* the Items over some lists of kids, the Sequences over some lists of
\* Items: a defined length of some content is exact or two bytes short
SeqItemsOver(kids) ==
    {i \in [undef : BOOLEAN, slack : {0, -2}, kids : kids] :
        i.slack = 0 \/ (~i.undef /\ i.kids # <<>>)}

SeqOver(lists) ==
    {q \in [leaf : {FALSE}, undef : BOOLEAN, slack : {0, -2},
            items : lists] :
        q.slack = 0 \/ (~q.undef /\ q.items # <<>>)}

\* how many Items the outer Sequence has at most
MaxItems == 2

\* the Sequences read.  Their first Item holds no element, a leaf, a
\* nested Sequence of one Item at most, or a leaf and such a Sequence; their
\* other Items hold a leaf and have an exact or an undefined length.
SeqTrees ==
    LET lists(items0, items1) ==
            {<<>>}
            \cup UNION {{<<i>> \o r : i \in items0 \cup items1,
                                      r \in [1..(n - 1) ->
                                              {j \in items0 :
                                                  j.slack = 0
                                                  /\ j.kids # <<>>}]} :
                        n \in 1..MaxItems}
        inner(items0, nested) ==
            lists(items0,
                  SeqItemsOver({<<q>> : q \in nested}
                               \cup {<<SeqLeaf, q>> : q \in nested}))
        outer(items0) ==
            inner(items0, SeqOver({<<>>} \cup {<<i>> : i \in items0}))
    IN  SeqOver(outer(SeqItemsOver({<<>>, <<SeqLeaf>>})))

RECURSIVE Join(_)
Join(parts) == IF parts = <<>> THEN <<>> ELSE Head(parts) \o Join(Tail(parts))

\* the bytes of a node in explicit VR
RECURSIVE SeqBytes(_)
SeqBytes(e) ==
    LET item(i, body) ==
            IF i.undef THEN ItemUndefined(body)
            ELSE TagBytes(TAG_ITEM) \o LE32(W32(Len(body) + i.slack)) \o body
        items(its) ==
            Join([k \in 1..Len(its) |->
                    item(its[k],
                         Join([j \in 1..Len(its[k].kids) |->
                                  SeqBytes(its[k].kids[j])]))])
        sequence(body) ==
            IF e.undef
            THEN ExplicitHeaderUndefined(TAG_SOME_SEQUENCE, "SQ")
                 \o body \o SqDelim
            ELSE TagBytes(TAG_SOME_SEQUENCE) \o vr_bytes["SQ"] \o <<0, 0>>
                 \o LE32(W32(Len(body) + e.slack)) \o body
    IN  IF e.leaf THEN ExplicitElement(TAG_CODE_VALUE, "SH", Str_X)
        ELSE sequence(items(e.items))

\* read_element_header, then read_element, on a Sequence that the elements
\* of the rest of a Data Set follow, once
DecodeSequence ==
    \E e \in SeqTrees, u \in Uninits :
        \E f \in {SeqBytes(e) \o ExplicitElement(TAG_PATIENT_NAME, "PN",
                                                 Str_DOE)} :
            \E h \in {read_element_header(f, 0, FALSE, u)} :
                /\ ~vdIn.have
                /\ h.ok
                /\ vdIn' = [have |-> TRUE, vr |-> "SQ", raw |-> SeqBytes(e),
                            tree |-> e]
                /\ vdOut' = read_element(f, h, h.pos, FALSE, u)
                /\ UNCHANGED <<fileId, fpos, offset, transfer_syntax_uid,
                               pixel_data_offset, metadata, alive, hist, olds, threads>>

\* read_element_header alone, in either mode, on a tag, a VR, two bytes r
\* (the short length, or the reserved bytes) and six bytes more
ReadHeader ==
    \E implicit \in BOOLEAN, vr \in AllVRs, u \in Uninits,
       tag \in {TAG_PATIENT_NAME, TAG_PIXEL_DATA, TAG_SOME_SEQUENCE},
       r \in {<<0, 0>>, <<4, 0>>, <<0, 1>>} :
        \E f \in {TagBytes(tag) \o vr_bytes[vr] \o r \o <<7, 0, 0, 0, 9, 9>>} :
            /\ ~vdIn.have
            /\ vdIn' = [have |-> TRUE, vr |-> "", raw |-> f,
                        header |-> [implicit |-> implicit, tag |-> tag,
                                    vr |-> vr, r |-> r]]
            /\ vdOut' = read_element_header(f, 0, implicit, u)
            /\ UNCHANGED <<fileId, fpos, offset, transfer_syntax_uid,
                           pixel_data_offset, metadata, alive, hist, olds,
                           threads>>

\* read_element_header, then read_element, on a Sequence that cannot be
\* read to its end, once: the input ends inside a Sequence whose lengths
\* are all undefined, or an Item of it holds two elements of one tag
DecodeBroken ==
    \E u \in Uninits,
       e \in {q \in SeqTrees :
                 /\ q.undef
                 /\ \A i \in 1..Len(q.items) :
                        /\ q.items[i].undef
                        /\ \A j \in 1..Len(q.items[i].kids) :
                               \/ q.items[i].kids[j].leaf
                               \/ /\ q.items[i].kids[j].undef
                                  /\ \A m \in
                                         1..Len(q.items[i].kids[j].items) :
                                         q.items[i].kids[j].items[m].undef} :
        \E f \in {SubSeq(SeqBytes(e), 1, k) : k \in 12..(Len(SeqBytes(e)) - 1)}
                  \cup {ExplicitHeaderUndefined(TAG_SOME_SEQUENCE, "SQ")
                        \o ItemUndefined(
                               ExplicitElement(TAG_CODE_VALUE, "SH", Str_X)
                               \o ExplicitElement(TAG_CODE_VALUE, "SH", Str_X))
                        \o SqDelim} :
            \E h \in {read_element_header(f, 0, FALSE, u)} :
                /\ ~vdIn.have
                /\ h.ok
                /\ vdIn' = [have |-> TRUE, vr |-> "", raw |-> f,
                            broken |-> TRUE]
                /\ vdOut' = read_element(f, h, h.pos, FALSE, u)
                /\ UNCHANGED <<fileId, fpos, offset, transfer_syntax_uid,
                               pixel_data_offset, metadata, alive, hist, olds,
                               threads>>

NextVD ==
    Decode \/ DecodeNumeric \/ DecodeSequence \/ ReadHeader \/ DecodeBroken

SpecVD == InitVD /\ [][NextVD]_vars

-----------------------------------------------------------------------------
(* Two threads, each parsing a character string of its own file *)

\* each thread has read the value of a character-string element into a
\* buffer of its own (read_element, lines 374-390) and is about to call
\* parse_character_string
InitMT ==
    /\ fileId = 0
    /\ fpos = 0
    /\ offset = 0
    /\ pixel_data_offset = 0
    /\ transfer_syntax_uid = NULLSTR
    /\ metadata = NoMetadata
    /\ alive = TRUE
    /\ hist = <<>>
    /\ vdIn = NoInput
    /\ vdOut = Outcome(FALSE, FALSE, NoElement, 0, 0, {})
    /\ olds = NullPointer
    /\ LET strings == {<<>>, <<70>>, <<65, 92, 66>>, <<67, 92, 68, 92, 69>>}
       IN  threads \in {<<[pc |-> "start", string |-> a, buf |-> a \o <<0>>,
                           freed |-> FALSE, parts |-> <<>>],
                          [pc |-> "start", string |-> b, buf |-> b \o <<0>>,
                           freed |-> FALSE, parts |-> <<>>]>> :
                            a \in strings, b \in strings}

\* lines 205-214: thread t takes the empty string as its only substring, or
\* calls strtok, with its string the first time and with NULL afterwards;
\* utarray_push_back copies the token returned
ParseToken(t) ==
    LET \* what a read of the buffers can see: a buffer that has been freed
        \* holds the bytes it held, or NULs
        memory ==
            {m \in [1..2 -> {threads[1].buf, threads[2].buf,
                             [k \in 1..Len(threads[1].buf) |-> 0],
                             [k \in 1..Len(threads[2].buf) |-> 0]}] :
                \A k \in 1..2 :
                    \/ m[k] = threads[k].buf
                    \/ /\ threads[k].freed
                       /\ m[k] = [j \in 1..Len(threads[k].buf) |-> 0]}
        token(r) ==
            /\ olds' = r.olds
            /\ threads' =
                   [k \in 1..2 |->
                       [threads[k] EXCEPT
                           !.buf = r.mem[k],
                           !.pc = IF k # t THEN @
                                  ELSE IF r.token = NullPointer THEN "finish"
                                  ELSE "loop",
                           !.parts =
                               IF k # t \/ r.token = NullPointer THEN @
                               ELSE Append(@, CString(SubSeq(
                                        r.mem[r.token.b], r.token.at + 1,
                                        Len(r.mem[r.token.b]))))]]
    IN  /\ threads[t].pc \in {"start", "loop"}
        /\ IF threads[t].pc = "start" /\ threads[t].string = <<>>
           THEN /\ threads' = [threads EXCEPT ![t].pc = "finish",
                                              ![t].parts = << <<>> >>]
                /\ olds' = olds
           ELSE \E m \in memory :
                    token(strtok_call(IF threads[t].pc = "start"
                                      THEN [b |-> t, at |-> 0]
                                      ELSE NullPointer, olds, m))
        /\ UNCHANGED <<fileId, fpos, offset, transfer_syntax_uid,
                       pixel_data_offset, metadata, alive, hist, vdIn, vdOut>>

\* lines 216-246: the substrings are handed back and the string is freed
ParseFinish(t) ==
    /\ threads[t].pc = "finish"
    /\ threads' = [threads EXCEPT ![t].pc = "done", ![t].freed = TRUE]
    /\ UNCHANGED <<fileId, fpos, offset, transfer_syntax_uid,
                   pixel_data_offset, metadata, alive, hist, vdIn, vdOut,
                   olds>>

NextMT == \E t \in 1..2 : ParseToken(t) \/ ParseFinish(t)

SpecMT == InitMT /\ [][NextMT]_vars


-----------------------------------------------------------------------------
(* Properties of the file handle (specification Spec) *)

BotOps == {"read_bot", "build_bot"}

\* the tags of a Data Set, in its order
TagsOf(ds) == [k \in 1..Len(ds) |-> ds[k].tag]

\* C1: on an input whose bytes 128..131 are not DICM, inputs shorter than
\* 132 bytes included, dcm_file_read_file_meta returns no Data Set, and when
\* it returns it has set neither file->offset nor transfer_syntax_uid.
C1_BadMagicFails ==
    \A i \in 1..Len(hist) :
        (hist[i].op = "read_file_meta" /\ ~Files[fileId].magic)
        => /\ hist[i].ret # "dataset"
           /\ hist[i].ret = "NULL"
              => /\ hist[i].post.offset = hist[i].pre.offset
                 /\ hist[i].post.uid = hist[i].pre.uid

\* C2: every header of the File Meta group is read in explicit mode, and
\* every header dcm_file_read_metadata reads in the Data Set, nested ones
\* included, is read in implicit mode exactly when the cached Transfer
\* Syntax UID is 1.2.840.10008.1.2.
C2_ModeSelection ==
    \A i \in 1..Len(hist) :
        /\ hist[i].op = "read_file_meta"
           => hist[i].res.modes \subseteq {FALSE}
        /\ hist[i].op = "read_metadata"
           => /\ hist[i].res.metaModes \subseteq {FALSE}
              /\ hist[i].res.modes \subseteq {hist[i].post.uid = UID_IMPLICIT}

\* a handle that has read the File Meta group in explicit mode and then a
\* whole Data Set in implicit mode
C2_ImplicitDataSetRead ==
    \E i \in 1..Len(hist) :
        /\ hist[i].op = "read_metadata"
        /\ hist[i].ret = "dataset"
        /\ Len(hist[i].res.ds) > 1
        /\ hist[i].res.metaModes = {FALSE}
        /\ hist[i].res.modes = {TRUE}

\* C3: on a well-formed file the Data Set dcm_file_read_file_meta returns
\* holds every element of group 0x0002 behind Group Length, the first one
\* included, and transfer_syntax_uid is cached; this holds too when the
\* group is Group Length and Transfer Syntax UID only.
C3_FileMetaComplete ==
    \A i \in 1..Len(hist) :
        (/\ hist[i].op = "read_file_meta"
         /\ hist[i].pre.fpos = 0
         /\ Files[fileId].magic /\ Files[fileId].metaOk
         /\ ~Files[fileId].truncated)
        => /\ hist[i].ret = "dataset"
           /\ TagsOf(hist[i].res.ds) = Files[fileId].metaTags
           /\ hist[i].post.uid = Files[fileId].uid

\* C4: of two dcm_file_read_file_meta calls that follow one another on a
\* handle, the second succeeds as the first did, with the same elements,
\* the same file->offset and the same transfer_syntax_uid.
C4_FileMetaIdempotent ==
    \A i \in 1..(Len(hist) - 1) :
        (/\ hist[i].op = "read_file_meta"
         /\ hist[i + 1].op = "read_file_meta"
         /\ hist[i].ret = "dataset")
        => /\ hist[i + 1].ret = "dataset"
           /\ hist[i + 1].res.ds = hist[i].res.ds
           /\ hist[i + 1].post.offset = hist[i].post.offset
           /\ hist[i + 1].post.uid = hist[i].post.uid

\* C5: a dcm_file_read_metadata call that follows a successful one on the
\* same handle returns the same elements in the same order and leaves
\* file->offset, transfer_syntax_uid and pixel_data_offset as they were.
C5_MetadataIdempotent ==
    \A i \in 1..(Len(hist) - 1) :
        (/\ hist[i].op = "read_metadata"
         /\ hist[i + 1].op = "read_metadata"
         /\ hist[i].ret = "dataset")
        => /\ hist[i + 1].ret = "dataset"
           /\ hist[i + 1].res.ds = hist[i].res.ds
           /\ hist[i + 1].post.offset = hist[i].post.offset
           /\ hist[i + 1].post.uid = hist[i].post.uid
           /\ hist[i + 1].post.pdo = hist[i].post.pdo

\* C6: on an input that does not end early, pixel_data_offset is non-zero
\* exactly when a dcm_file_read_metadata call has met a Pixel Data tag, and
\* it is then the offset of the first byte of that element's header.
C6_PixelDataOffset ==
    ~Files[fileId].truncated
    => /\ pixel_data_offset # 0
          <=> \E i \in 1..Len(hist) :
                  hist[i].op = "read_metadata" /\ hist[i].res.pixel
       /\ pixel_data_offset # 0
          => pixel_data_offset = Files[fileId].pixelAt

\* C7: dcm_file_read_bot and dcm_file_build_bot on a handle whose
\* pixel_data_offset is still 0 return no BOT and have neither moved nor
\* read the stream.
C7_BotNeedsMetadata ==
    \A i \in 1..Len(hist) :
        (hist[i].op \in BotOps /\ hist[i].pre.pdo = 0)
        => /\ hist[i].ret # "bot"
           /\ ~hist[i].res.touched
           /\ hist[i].post.fpos = hist[i].pre.fpos

\* both operations have been turned down by the test of pixel_data_offset:
\* the transfer syntax is encapsulated and Number of Frames is positive
C7_TurnedDownAtOffsetTest ==
    /\ transfer_syntax_uid # NULLSTR
    /\ dcm_is_encapsulated_transfer_syntax(transfer_syntax_uid)
    /\ \A op \in BotOps :
           \E i \in 1..Len(hist) :
               /\ hist[i].op = op
               /\ hist[i].pre.uid = transfer_syntax_uid
               /\ hist[i].pre.pdo = 0
               /\ hist[i].frames.known /\ hist[i].frames.value > 0
               /\ hist[i].ret = "NULL"

\* C8: dcm_file_read_bot and dcm_file_build_bot return no BOT when Number
\* of Frames, read as a signed decimal integer, is zero or negative.
C8_FramesNotPositive ==
    \A i \in 1..Len(hist) :
        (/\ hist[i].op \in BotOps
         /\ hist[i].frames.known
         /\ hist[i].frames.value <= 0)
        => hist[i].ret # "bot"

-----------------------------------------------------------------------------
(* Properties of the value decoder (specification SpecVD) *)

HasBackslash(raw) == \E k \in 1..Len(raw) : raw[k] = 92

\* the raw value without its last byte when that byte is white space and
\* the VR is not UI
StripOne(vr, raw) ==
    IF Len(raw) > 0 /\ vr # "UI" /\ isspace(raw[Len(raw)])
    THEN SubSeq(raw, 1, Len(raw) - 1)
    ELSE raw

\* the parts of s between its backslashes, empty parts kept; cur is the
\* part being read
RECURSIVE SplitAll(_, _)
SplitAll(s, cur) ==
    IF s = <<>> THEN <<cur>>
    ELSE IF Head(s) = 92 THEN <<cur>> \o SplitAll(Tail(s), <<>>)
    ELSE SplitAll(Tail(s), Append(cur, Head(s)))

\* C9: for the VRs ST, LT, UR and UT read_element returns no element when
\* the raw value holds a backslash, wherever it stands.
C9_BackslashRejected ==
    (vdIn.have /\ vdIn.vr \in SingleValuedVRs /\ HasBackslash(vdIn.raw))
    => ~vdOut.ok

\* C10: for a multi-valued character-string VR the decoded value is the
\* list of the parts between the backslashes of the raw value, empty parts
\* kept, so VM is the number of backslashes plus one; before that one
\* trailing white-space byte is dropped unless the VR is UI.
C10_SplitKeepsEmptyParts ==
    (vdIn.have /\ vdIn.vr \in CharacterStringVRs \ SingleValuedVRs
     /\ vdOut.ok)
    => /\ vdOut.elem.value = SplitAll(StripOne(vdIn.vr, vdIn.raw), <<>>)
       /\ vdOut.elem.vm = Len(SplitAll(StripOne(vdIn.vr, vdIn.raw), <<>>))

\* the bytes of the value are the values in their order
Concat(values) ==
    IF values = <<>> THEN <<>>
    ELSE [k \in 1..(Len(values) * Len(values[1])) |->
              values[((k - 1) \div Len(values[1])) + 1]
                    [((k - 1) % Len(values[1])) + 1]]

\* C11: for a fixed-width numeric VR of element size s, read_element on a
\* header of length L returns L/s values and adds L to the byte counter
\* when L is a multiple of s, and returns no element when it is not.
C11_NumericLength ==
    (vdIn.have /\ vdIn.vr \in NumericVRs)
    => IF Len(vdIn.raw) % NumericSize(vdIn.vr) = 0
       THEN /\ vdOut.ok
            /\ vdOut.elem.vm = Len(vdIn.raw) \div NumericSize(vdIn.vr)
            /\ Concat(vdOut.elem.value) = vdIn.raw
            /\ vdOut.n = Len(vdIn.raw)
       ELSE ~vdOut.ok

\* what a node decodes to
RECURSIVE SeqValue(_)
SeqValue(e) ==
    IF e.leaf
    THEN [tag |-> TAG_CODE_VALUE, vr |-> "SH", vm |-> 1, value |-> << <<88>> >>]
    ELSE [tag |-> TAG_SOME_SEQUENCE, vr |-> "SQ", vm |-> 1,
          value |-> [k \in 1..Len(e.items) |->
                        [j \in 1..Len(e.items[k].kids) |->
                            SeqValue(e.items[k].kids[j])]]]

\* every Sequence of the node has undefined length and every defined
\* length of an Item is exact
RECURSIVE SeqUndefined(_)
SeqUndefined(e) ==
    e.leaf \/ /\ e.undef
              /\ \A k \in 1..Len(e.items) :
                     /\ e.items[k].slack = 0
                     /\ \A j \in 1..Len(e.items[k].kids) :
                            SeqUndefined(e.items[k].kids[j])

\* no defined length of the node understates its content
RECURSIVE SeqExact(_)
SeqExact(e) ==
    e.leaf \/ /\ e.slack = 0
              /\ \A k \in 1..Len(e.items) :
                     /\ e.items[k].slack = 0
                     /\ \A j \in 1..Len(e.items[k].kids) :
                            SeqExact(e.items[k].kids[j])

\* C12: a Sequence of undefined length whose Items have defined or
\* undefined length, closed by SQ_DELIM, decodes to its Items in file
\* order, each with its own elements, nested Sequences included, and the
\* stream is left on the byte after the length field of SQ_DELIM.
C12_UndefinedSequence ==
    (vdIn.have /\ vdIn.vr = "SQ" /\ SeqUndefined(vdIn.tree))
    => /\ vdOut.ok
       /\ vdOut.elem = SeqValue(vdIn.tree)
       /\ vdOut.pos = Len(vdIn.raw)

\* a Sequence of two Items was read whose first Item, of defined length,
\* holds a leaf and a nested Sequence with an Item of undefined length
C12_NestedSequenceRead ==
    /\ vdIn.have /\ vdIn.vr = "SQ" /\ SeqUndefined(vdIn.tree)
    /\ vdOut.ok
    /\ Len(vdOut.elem.value) = 2
    /\ ~vdIn.tree.items[1].undef
    /\ Len(vdOut.elem.value[1]) = 2
    /\ vdOut.elem.value[1][2].vr = "SQ"
    /\ Len(vdOut.elem.value[1][2].value) = 1
    /\ vdIn.tree.items[1].kids[2].items[1].undef
    /\ Len(vdOut.elem.value[1][2].value[1]) = 1

\* C13: when read_element returns a Sequence, every defined length of the
\* Sequence and of its Items is the size of the children read, so an input
\* whose defined length is exceeded by its children is refused; the bytes
\* counted for a defined-length Sequence are its declared length.
C13_DefinedLengthExact ==
    (vdIn.have /\ vdIn.vr = "SQ" /\ vdOut.ok)
    => /\ SeqExact(vdIn.tree)
       /\ ~vdIn.tree.undef
          => vdOut.n = Len(vdIn.raw) - 12

\* a header has been read alone
HeaderRead == vdIn.have /\ vdIn.vr = "" /\ "header" \in DOMAIN vdIn

\* C25: in explicit mode read_element_header consumes 8 bytes (tag, VR and a
\* length of 2 bytes) for the VRs AE AS AT CS DA DS DT FL FD IS LO LT PN SH
\* SL SS ST TM UI UL US; for every other VR it fails when the two reserved
\* bytes are not 0 and otherwise consumes 12 bytes (tag, VR, reserved bytes
\* and a length of 4 bytes); in implicit mode it consumes 8 bytes (tag and
\* a length of 4 bytes) and takes the VR from the dictionary; the byte
\* counter grows by the number of bytes consumed.
C25_HeaderSizes ==
    HeaderRead
    => IF vdIn.header.implicit
       THEN /\ vdOut.ok
            /\ vdOut.pos = 8
            /\ vdOut.cnt = 8
            /\ vdOut.vr = dcm_dict_lookup_vr(vdIn.header.tag)
            /\ vdOut.length = U32(SubSeq(vdIn.raw, 5, 8))
       ELSE IF vdIn.header.vr
               \in {"AE", "AS", "AT", "CS", "DA", "DS", "DT", "FL", "FD",
                    "IS", "LO", "LT", "PN", "SH", "SL", "SS", "ST", "TM",
                    "UI", "UL", "US"}
       THEN /\ vdOut.ok
            /\ vdOut.pos = 8
            /\ vdOut.cnt = 8
            /\ vdOut.vr = vdIn.header.vr
            /\ vdOut.length = <<0, U16(vdIn.header.r)>>
       ELSE IF vdIn.header.r # <<0, 0>>
       THEN ~vdOut.ok
       ELSE /\ vdOut.ok
            /\ vdOut.pos = 12
            /\ vdOut.cnt = 12
            /\ vdOut.vr = vdIn.header.vr
            /\ vdOut.length = <<0, 7>>

\* the header of an element of VR UT has been read in explicit mode, with
\* reserved bytes of 0
C25_LongHeaderRead ==
    /\ HeaderRead
    /\ ~vdIn.header.implicit
    /\ vdIn.header.vr = "UT"
    /\ vdIn.header.r = <<0, 0>>
    /\ vdOut.cnt = 12

\* C27: when read_element fails while it decodes a Sequence, every Item
\* Data Set it has created, the one under construction included, has been
\* released when it returns.
C27_SequenceReleased ==
    (/\ vdIn.have
     /\ "broken" \in DOMAIN vdIn
     /\ ~vdOut.ok
     /\ ~vdOut.abort)
    => vdOut.leaked = 0

-----------------------------------------------------------------------------
(* Properties of the Basic Offset Table (specification Spec) *)

\* the call hist[i] was made on a complete file with encapsulated Pixel
\* Data, after dcm_file_read_metadata had found the Pixel Data element, and
\* with a Data Set whose Number of Frames is positive
OnEncapsulated(i) ==
    /\ ~Files[fileId].truncated
    /\ Files[fileId].pixelAt # 0
    /\ Files[fileId].uid = UID_JPEG
    /\ hist[i].pre.uid = UID_JPEG
    /\ hist[i].pre.pdo = Files[fileId].pixelAt
    /\ hist[i].frames.known
    /\ hist[i].frames.value > 0

\* the length field of the BOT Item of the file, and its first n entries
DiskBotLength == U32(SubSeq(F, Files[fileId].pixelAt + 17,
                            Files[fileId].pixelAt + 20))
DiskBot(n) ==
    [k \in 1..n |-> U32(SubSeq(F, Files[fileId].pixelAt + 17 + 4 * k,
                               Files[fileId].pixelAt + 20 + 4 * k))]

\* C14: on an encapsulated file whose BOT Item holds Number of Frames
\* 32-bit entries, dcm_file_read_bot returns a BOT of that many frames whose
\* offsets are the entries on disk in their order, the first one 0.
C14_BotVerbatim ==
    \A i \in 1..Len(hist) :
        (/\ hist[i].op = "read_bot"
         /\ OnEncapsulated(i)
         /\ DiskBotLength = W32(4 * hist[i].frames.value))
        => /\ hist[i].ret = "bot"
           /\ hist[i].res.bot.num_frames = W32(hist[i].frames.value)
           /\ hist[i].res.bot.offsets = DiskBot(hist[i].frames.value)
           /\ hist[i].res.bot.offsets[1] = <<0, 0>>

\* dcm_file_read_bot has returned the table of a file with two frames
C14_BotRead ==
    \E i \in 1..Len(hist) :
        /\ hist[i].op = "read_bot"
        /\ OnEncapsulated(i)
        /\ DiskBotLength = <<0, 8>>
        /\ hist[i].ret = "bot"
        /\ hist[i].res.bot.offsets = <<<<0, 0>>, <<0, 12>>>>

\* the k-th 64-bit little-endian value of an Extended Offset Table, as its
\* high and low 32 bits
ExtendedOffset(value, k) ==
    <<U32(SubSeq(value, 8 * k - 3, 8 * k)),
      U32(SubSeq(value, 8 * k - 7, 8 * k - 4))>>

\* C15: when the BOT Item is empty, dcm_file_read_bot returns a BOT whose
\* offsets are the 64-bit values of the Extended Offset Table (7FE0,0001)
\* of the metadata if that element is there, and no BOT if it is not.
C15_ExtendedOffsetTable ==
    \A i \in 1..Len(hist) :
        (/\ hist[i].op = "read_bot"
         /\ OnEncapsulated(i)
         /\ metadata.have
         /\ DiskBotLength = <<0, 0>>)
        => IF HasTag(metadata.ds, TAG_EXTENDED_OFFSET_TABLE)
           THEN /\ hist[i].ret = "bot"
                /\ hist[i].res.bot.num_frames = W32(hist[i].frames.value)
                /\ \A k \in 1..hist[i].frames.value :
                       ExtendedOffset(
                           dcm_dataset_get(metadata.ds,
                                           TAG_EXTENDED_OFFSET_TABLE).value, k)
                       = <<<<0, 0>>, hist[i].res.bot.offsets[k]>>
           ELSE hist[i].ret # "bot"

\* the Frame Items of the file from position at on, as the positions of their
\* headers and the lengths of their values, up to the first tag that is not
\* the Item tag
RECURSIVE DiskItems(_)
DiskItems(at) ==
    IF at + 8 > Len(F) \/ SubSeq(F, at + 1, at + 4) # <<254, 255, 0, 224>>
    THEN <<>>
    ELSE <<[at |-> at, length |-> Int32(U32(SubSeq(F, at + 5, at + 8)))]>>
         \o DiskItems(at + 8 + Int32(U32(SubSeq(F, at + 5, at + 8))))

\* the Frame Items of the Pixel Data element: those after its BOT Item
DiskFrames == DiskItems(Files[fileId].pixelAt + 12 + 8 + Int32(DiskBotLength))

\* the distance from the first byte after the BOT Item to the header of the
\* k-th Frame Item
RECURSIVE FrameOffset(_)
FrameOffset(k) ==
    IF k = 1 THEN 0 ELSE FrameOffset(k - 1) + 8 + DiskFrames[k - 1].length

\* C16: on an encapsulated file whose Pixel Data holds a BOT Item and then as
\* many Frame Items as Number of Frames says, dcm_file_build_bot returns a
\* BOT whose first offset is 0 and whose k-th offset is the sum of 8 plus the
\* length of every Frame Item before the k-th.
C16_BuiltOffsets ==
    \A i \in 1..Len(hist) :
        (/\ hist[i].op = "build_bot"
         /\ OnEncapsulated(i)
         /\ Len(DiskFrames) = hist[i].frames.value)
        => /\ hist[i].ret = "bot"
           /\ hist[i].res.bot.offsets
              = [k \in 1..hist[i].frames.value |-> FrameOffset(k)]

\* the call hist[j] is dcm_file_read_frame for a frame of the BOT that the
\* call hist[i], dcm_file_build_bot on an encapsulated file with an empty BOT
\* Item and no Extended Offset Table, has returned
RoundTrip(i, j) ==
    /\ hist[i].op = "build_bot"
    /\ hist[i].ret = "bot"
    /\ OnEncapsulated(i)
    /\ DiskBotLength = <<0, 0>>
    /\ metadata.have
    /\ ~HasTag(metadata.ds, TAG_EXTENDED_OFFSET_TABLE)
    /\ hist[j].op = "read_frame"
    /\ hist[j].res.bot = i
    /\ OnEncapsulated(j)
    /\ hist[j].res.number \in 1..hist[i].frames.value
    /\ hist[j].res.number <= Len(DiskFrames)

\* C17: when dcm_file_build_bot has built the BOT of an encapsulated file
\* with an empty BOT Item and no Extended Offset Table, dcm_file_read_frame
\* with that BOT seeks, for frame k, to the first byte of the header of the
\* k-th Frame Item and returns the bytes of the value of that Item.
C17_BuildThenRead ==
    \A i, j \in 1..Len(hist) :
        RoundTrip(i, j)
        => /\ hist[j].res.at = DiskFrames[hist[j].res.number].at
           /\ hist[j].ret = "frame"
           /\ hist[j].res.value
              = SubSeq(F, DiskFrames[hist[j].res.number].at + 9,
                       DiskFrames[hist[j].res.number].at + 8
                       + DiskFrames[hist[j].res.number].length)

\* C18: on an encapsulated file whose Pixel Data holds, after the BOT Item,
\* a number of Frame Items other than Number of Frames, fewer or more,
\* dcm_file_build_bot returns no BOT.
C18_FrameCountMismatch ==
    \A i \in 1..Len(hist) :
        (/\ hist[i].op = "build_bot"
         /\ OnEncapsulated(i)
         /\ Len(DiskFrames) # hist[i].frames.value)
        => hist[i].ret # "bot"

\* the call hist[i] was made on a complete file of a transfer syntax that is
\* not encapsulated, after dcm_file_read_metadata had read its Data Set,
\* which describes the pixels in a multiple of 8 bits and has a positive
\* Number of Frames
OnNative(i) ==
    /\ ~Files[fileId].truncated
    /\ Files[fileId].pixelAt # 0
    /\ Files[fileId].uid \in {UID_IMPLICIT, UID_EXPLICIT}
    /\ hist[i].pre.uid = Files[fileId].uid
    /\ hist[i].pre.pdo = Files[fileId].pixelAt
    /\ metadata.have
    /\ hist[i].frames.known
    /\ hist[i].frames.value > 0
    /\ create_pixel_description(metadata.ds).ok
    /\ create_pixel_description(metadata.ds).bits_allocated % 8 = 0

\* the number of bytes of a frame of native Pixel Data
FrameBytes ==
    create_pixel_description(metadata.ds).rows
    * create_pixel_description(metadata.ds).columns
    * create_pixel_description(metadata.ds).samples_per_pixel
    * (create_pixel_description(metadata.ds).bits_allocated \div 8)

\* C19: on a file of a transfer syntax that is not encapsulated, implicit or
\* explicit, dcm_file_build_bot after dcm_file_read_metadata returns a BOT
\* whose offsets are i * rows * columns * samples_per_pixel *
\* (bits_allocated / 8) for i = 0 .. Number of Frames - 1.
C19_NativeOffsets ==
    \A i \in 1..Len(hist) :
        (hist[i].op = "build_bot" /\ OnNative(i))
        => /\ hist[i].ret = "bot"
           /\ hist[i].res.bot.offsets
              = [k \in 1..hist[i].frames.value |-> (k - 1) * FrameBytes]

\* the size of the header of the Pixel Data element of the file
PixelDataHeader == IF Files[fileId].uid = UID_IMPLICIT THEN 8 ELSE 12

\* C20: on a file of a transfer syntax that is not encapsulated,
\* dcm_file_read_frame reads rows * columns * samples_per_pixel *
\* (bits_allocated / 8) bytes from the position pixel_data_offset plus the
\* size of the header of the Pixel Data element (8 in implicit mode, 12 in
\* explicit mode) plus the offset of the frame.
C20_NativeFrame ==
    \A i, j \in 1..Len(hist) :
        (/\ hist[j].op = "read_frame"
         /\ hist[j].res.bot = i
         /\ hist[j].res.number > 0
         /\ OnNative(j))
        => /\ hist[j].ret = "frame"
           /\ hist[j].res.at
              = hist[j].pre.pdo + PixelDataHeader
                + hist[i].res.bot.offsets[hist[j].res.number]
           /\ hist[j].res.length = <<0, FrameBytes>>
           /\ hist[j].res.value
              = SubSeq(F, hist[j].res.at + 1, hist[j].res.at + FrameBytes)

\* the BOT the call hist[j] of dcm_file_read_frame was made with
BotOf(j) ==
    [num_frames |-> hist[hist[j].res.bot].res.bot.num_frames,
     offsets |->
         [k \in 1..Len(hist[hist[j].res.bot].res.bot.offsets) |->
             IF hist[hist[j].res.bot].op = "read_bot"
             THEN Int32(hist[hist[j].res.bot].res.bot.offsets[k])
             ELSE hist[hist[j].res.bot].res.bot.offsets[k]]]

\* the frame dcm_file_read_frame returns for the handle, the Data Set, the
\* BOT and the number of the call hist[j], when it starts at position p with
\* the uninitialised memory of UninitZero
FrameAt(j, p) ==
    dcm_file_read_frame(F, p, hist[j].pre.uid, hist[j].pre.pdo,
                        hist[j].res.md, BotOf(j), hist[j].res.number,
                        UninitZero)

\* C21: after dcm_file_read_metadata, what dcm_file_read_frame returns for a
\* BOT and a frame number (a frame or none, its length and its bytes) is the
\* same wherever the stream stands and whatever was read before, so reading
\* a frame twice, or two frames in either order, gives equal frames; the
\* call changes no field of the handle other than the stream position.
C21_FrameDependsOnNumber ==
    \A j \in 1..Len(hist) :
        (hist[j].op = "read_frame" /\ metadata.have
         /\ hist[j].res.md = metadata.ds)
        => /\ hist[j].ret = FrameAt(j, 0).ret
           /\ hist[j].res.length = FrameAt(j, 0).length
           /\ hist[j].res.value = FrameAt(j, 0).value
           /\ hist[j].post = [hist[j].pre EXCEPT !.fpos = hist[j].res.pos]

\* the first byte after the elements of group 0x0002 that stand in the file
\* from position at on
RECURSIVE DiskMetaEnd(_)
DiskMetaEnd(at) ==
    IF at + 8 > Len(F) \/ U16(SubSeq(F, at + 1, at + 2)) # 2
    THEN at
    ELSE DiskMetaEnd(read_element_header(F, at, FALSE, UninitZero).pos
                     + Int32(read_element_header(F, at, FALSE,
                                                 UninitZero).length))

\* C24: after the first dcm_file_read_file_meta on a complete file has
\* returned a Data Set, file->offset is the position of the first byte
\* after the File Meta group, whether the byte count of Group Length or an
\* element of another group has ended the loop; it is 132 + 12 + G when
\* the Group Length G is exact.
C24_HeaderEndOffset ==
    \A i \in 1..Len(hist) :
        (/\ hist[i].op = "read_file_meta"
         /\ hist[i].ret = "dataset"
         /\ hist[i].pre.fpos = 0
         /\ Files[fileId].magic
         /\ ~Files[fileId].truncated)
        => /\ hist[i].post.offset = DiskMetaEnd(132)
           /\ Files[fileId].metaOk
              => hist[i].post.offset
                 = 132 + 12 + Int32(U32(SubSeq(F, 141, 144)))

\* the call hist[i] has met the end of the input inside what it had to
\* read: it is the first call on a handle of a file that ends inside the
\* preamble, the prefix or an element, or it is dcm_file_read_frame for the
\* frame the file ends in
ShortRead(i) ==
    \/ /\ i = 1
       /\ hist[i].op \in {"read_file_meta", "read_metadata"}
       /\ Len(F) < 132
    \/ /\ i = 1
       /\ hist[i].op = "read_metadata"
       /\ Files[fileId].truncated
       /\ Files[fileId].name # "cut in the last frame"
    \/ /\ hist[i].op = "read_frame"
       /\ Files[fileId].name = "cut in the last frame"
       /\ hist[i].res.number = 2
       /\ hist[i].pre.pdo = ExplicitNative.pixelAt

\* C26: a public operation that meets the end of the input inside a tag, a
\* header or a value fails: it returns no Data Set and no frame, and so no
\* Sequence or Item cut short by the end of the input.
C26_ShortReadFails ==
    \A i \in 1..Len(hist) :
        ShortRead(i) => hist[i].ret \notin {"dataset", "frame"}

\* C23: dcm-dump ends with status 1 when dcm_file_create,
\* dcm_file_read_file_meta or dcm_file_read_metadata has failed and with
\* status 0 only when all three have succeeded; when
\* dcm_file_read_file_meta has failed, the File Meta is not printed.
C23_DumpExitCode ==
    \A i \in 1..Len(hist) :
        hist[i].op = "dcm-dump"
        => /\ hist[i].ret
              = IF /\ hist[i].res.created
                   /\ hist[i].res.file_meta = "dataset"
                   /\ hist[i].res.metadata = "dataset"
                THEN "EXIT_SUCCESS"
                ELSE "EXIT_FAILURE"
           /\ hist[i].res.file_meta \notin {"none", "dataset"}
              => ~hist[i].res.printed

\* C28: in the encapsulated case of dcm_file_build_bot every offsets[i]
\* written has i < num_frames: no call writes behind the end of offsets.
C28_OffsetsInBounds ==
    \A i \in 1..Len(hist) :
        hist[i].op = "build_bot" => ~hist[i].res.oob

\* C29: in every public operation each call of eheader_get_tag,
\* eheader_get_group_number, eheader_get_length, iheader_get_tag and
\* iheader_get_length receives a header that is not NULL: a header read
\* that has failed is detected before the header is used.
C29_HeadersNotNull ==
    \A i \in 1..Len(hist) :
        hist[i].op \in {"read_bot", "build_bot"} => ~hist[i].res.null_header

-----------------------------------------------------------------------------
(* Properties of concurrent parses (specification SpecMT) *)

\* C22: two threads that parse the character strings of their own files at
\* the same time, their steps interleaved in any way, each get the
\* substrings they get when the parses run one after the other.
C22_ThreadsIndependent ==
    \A t \in 1..2 :
        threads[t].pc = "done"
        => threads[t].parts = parse_character_string(threads[t].string)

====
